---- MODULE Spec2Model ----
(***************************************************************************)
(* ChatList: the concurrent dispatcher (network.send_prompts_parallel),    *)
(* the single-target request (network.send_prompt_to_model), the           *)
(* credential lookup (models.get_api_key) and the improvement-response     *)
(* parser (network.parse_improvement_response).                            *)
(***************************************************************************)
EXTENDS Integers, Sequences, FiniteSets, TLC

\* ------------------------------------------------------------------ bounds
\* Largest target list handed to send_prompts_parallel.
MaxTargets == 2

\* ------------------------------------------------------------------ strings
\* A Python str is a sequence of characters; Optional[str] is a record.
SP == " "
IsSpace(c) == c = SP \/ c = "\n"

RECURSIVE lstrip(_)
lstrip(s) == IF s # <<>> /\ IsSpace(Head(s)) THEN lstrip(Tail(s)) ELSE s

RECURSIVE rstrip(_)
rstrip(s) ==
    IF s # <<>> /\ IsSpace(s[Len(s)]) THEN rstrip(SubSeq(s, 1, Len(s) - 1)) ELSE s

\* str.strip()
strip(s) == rstrip(lstrip(s))

NoneStr == [some |-> FALSE, s |-> <<>>]
Some(s) == [some |-> TRUE, s |-> s]
\* Python truthiness of an Optional[str]: None and "" are falsy.
Truthy(o) == o.some /\ o.s # <<>>

\* ------------------------------------------------------------------ credentials
EnvNames == {"OPENROUTER_API_KEY", "OTHER_API_KEY"}
\* Values the process environment can hold for a variable (os.environ).
EnvValues == {NoneStr, Some(<<>>), Some(<<SP>>), Some(<<"k", SP>>)}

\* models.get_api_key(api_id): os.getenv, stripped when truthy, else None.
get_api_key(environ, api_id) ==
    IF Truthy(environ[api_id]) THEN Some(strip(environ[api_id].s)) ELSE NoneStr

\* Model.get_api_key(): every model reads OPENROUTER_API_KEY, whatever its api_id.
Model_get_api_key(environ, model) == get_api_key(environ, "OPENROUTER_API_KEY")

\* `if not api_key:` in send_prompt_to_model.
KeyBlankOnlyNone(api_key) == ~api_key.some
KeyMissing(api_key) == ~Truthy(api_key)

\* ------------------------------------------------------------------ outcomes
NoError == "None"
ErrCredential == "OPENROUTER_API_KEY not found"
ErrApiTimeout == "API request error: timeout"
ErrApiStatus == "API request error: HTTP status"
ErrUnexpected == "Unexpected error: malformed body"
ErrException == "Exception: callback"
NoTokens == -1
\* response_time: the literal 0.0, or a measured time.time() - start_time.
ZeroTime == "0.0"
MeasuredTime == "time() - start_time"

\* APIResponse.__init__: success is computed from the error passed in.
APIResponse(model_id, response_text, tokens_used, response_time, error) ==
    [model_id |-> model_id, response_text |-> response_text,
     tokens_used |-> tokens_used, response_time |-> response_time,
     error |-> error, success |-> (error = NoError)]

NoResponse == APIResponse(0, "", NoTokens, ZeroTime, "unset")

\* What the HTTP exchange of send_openrouter_request can do.
TransportOutcomes ==
    {[kind |-> "ok", text |-> "ok", tokens |-> 12],
     [kind |-> "timeout", text |-> "", tokens |-> NoTokens],
     [kind |-> "http_status", text |-> "", tokens |-> NoTokens],
     [kind |-> "malformed", text |-> "", tokens |-> NoTokens]}

\* The exception that leaves send_openrouter_request: a network failure and
\* the HTTPError of raise_for_status() are both RequestException and leave as
\* APIError; a body without choices[0].message.content raises KeyError at the
\* subscript, which nothing in the adapter catches.
AdapterException(kind) ==
    CASE kind = "ok" -> "none"
      [] kind \in {"timeout", "http_status"} -> "APIError"
      [] OTHER -> "KeyError"

\* str(e) of the APIError: one prefix, then the text of the requests exception.
APIErrorMessage(kind) == IF kind = "timeout" THEN ErrApiTimeout ELSE ErrApiStatus

\* An outcome that drops the error of a failed exchange.
ResponseIgnoringFailure(model, o) ==
    APIResponse(model.id, o.text, o.tokens, MeasuredTime, NoError)

\* send_openrouter_request + the try/except of send_prompt_to_model: a
\* RequestException becomes APIError and then an error outcome, a missing
\* choices[0].message.content is caught by `except Exception`.
ResponseOfTransport(model, o) ==
    CASE AdapterException(o.kind) = "none" ->
             APIResponse(model.id, o.text, o.tokens, MeasuredTime, NoError)
      [] AdapterException(o.kind) = "APIError" ->
             APIResponse(model.id, "", NoTokens, MeasuredTime, APIErrorMessage(o.kind))
      [] OTHER -> APIResponse(model.id, "", NoTokens, MeasuredTime, ErrUnexpected)

\* The outcome returned when the key is missing (no request is sent).
CredentialMissingResponse(model) == APIResponse(model.id, "", NoTokens, ZeroTime, ErrCredential)

\* The outcome built in the `except Exception` branch of send_to_model.
error_response(model) == APIResponse(model.id, "", NoTokens, ZeroTime, ErrException)

\* ------------------------------------------------------------------ parser: text
\* Raw text is a sequence of tokens. Whitespace tokens are " " and "\n"; the
\* section markers, list markers and JSON punctuation are one token each; the
\* other tokens are words. A marker token stands for every synonym of its
\* alternation (e.g. "improved" for the Russian forms next to it in the regex).
NL == "\n"
Q == "\""

At(text, p) == IF p \in 1..Len(text) THEN text[p] ELSE "<end>"

\* A comparison of marker words that respects case.
SameCase(t) == t

\* re.IGNORECASE on the marker words.
lower(t) == IF t = "Improved" THEN "improved" ELSE t

\* ------------------------------------------------------------------ parser: JSON layer
\* re.search(r'\{[^{}]*"improved"[^{}]*\}', text, re.DOTALL): the leftmost "{"
\* whose next brace is a "}" with "improved" in quotes between them (no
\* IGNORECASE on this pattern).
NextBrace(text, i) ==
    LET js == {j \in (i + 1)..Len(text) : text[j] \in {"{", "}"}} IN
    IF js = {} THEN 0 ELSE CHOOSE j \in js : \A k \in js : j <= k

JsonMatchAt(text, i) ==
    /\ text[i] = "{"
    /\ NextBrace(text, i) # 0
    /\ text[NextBrace(text, i)] = "}"
    /\ \E k \in (i + 1)..(NextBrace(text, i) - 3) :
          text[k] = Q /\ text[k + 1] = "improved" /\ text[k + 2] = Q

json_search(text) ==
    LET is == {i \in 1..Len(text) : JsonMatchAt(text, i)} IN
    IF is = {} THEN [found |-> FALSE, group0 |-> <<>>]
    ELSE LET i == CHOOSE i \in is : \A k \in is : i <= k IN
         [found |-> TRUE, group0 |-> SubSeq(text, i, NextBrace(text, i))]

\* json.loads on an object without nested braces. A decoded value is a str, a
\* None, an int or a list; the elements of a list are str, None or int.
JStr(ts) == [t |-> "str", s |-> ts, items |-> <<>>]
JNull == [t |-> "null", s |-> <<>>, items |-> <<>>]
JNum == [t |-> "num", s |-> <<>>, items |-> <<>>]
JList(vs) == [t |-> "list", s |-> <<>>, items |-> vs]
JFail == [ok |-> FALSE, v |-> JNull, next |-> 0]

RECURSIVE SkipWs(_, _)
SkipWs(seg, p) == IF IsSpace(At(seg, p)) THEN SkipWs(seg, p + 1) ELSE p

\* A string literal: up to the next quote; a raw newline inside is a control
\* character, which the decoder rejects.
ParseString(seg, p) ==
    LET qs == {q \in (p + 1)..Len(seg) : seg[q] = Q} IN
    IF At(seg, p) # Q \/ qs = {} THEN JFail
    ELSE LET q == CHOOSE q \in qs : \A k \in qs : q <= k IN
         IF \E k \in (p + 1)..(q - 1) : seg[k] = NL THEN JFail
         ELSE [ok |-> TRUE, v |-> JStr(SubSeq(seg, p + 1, q - 1)), next |-> q + 1]

ParseScalar(seg, p) ==
    CASE At(seg, p) = Q -> ParseString(seg, p)
      [] At(seg, p) = "null" -> [ok |-> TRUE, v |-> JNull, next |-> p + 1]
      [] At(seg, p) = "7" -> [ok |-> TRUE, v |-> JNum, next |-> p + 1]
      [] OTHER -> JFail

RECURSIVE ParseElems(_, _, _)
\* The elements of an array after "[" or after a ",".
ParseElems(seg, p, acc) ==
    LET e == ParseScalar(seg, SkipWs(seg, p)) IN
    IF ~e.ok THEN JFail
    ELSE LET n == SkipWs(seg, e.next)
             vs == Append(acc, [t |-> e.v.t, s |-> e.v.s]) IN
         CASE At(seg, n) = "," -> ParseElems(seg, n + 1, vs)
           [] At(seg, n) = "]" -> [ok |-> TRUE, v |-> JList(vs), next |-> n + 1]
           [] OTHER -> JFail

ParseValue(seg, p) ==
    IF At(seg, p) = "["
    THEN IF At(seg, SkipWs(seg, p + 1)) = "]"
         THEN [ok |-> TRUE, v |-> JList(<<>>), next |-> SkipWs(seg, p + 1) + 1]
         ELSE ParseElems(seg, p + 1, <<>>)
    ELSE ParseScalar(seg, p)

RECURSIVE ParsePairs(_, _, _)
\* The members of an object after "{" or after a ","; the object must end the
\* text handed to json.loads.
ParsePairs(seg, p, acc) ==
    LET k == ParseString(seg, SkipWs(seg, p)) IN
    IF ~k.ok \/ At(seg, SkipWs(seg, k.next)) # ":" THEN [ok |-> FALSE, pairs |-> <<>>]
    ELSE LET v == ParseValue(seg, SkipWs(seg, SkipWs(seg, k.next) + 1)) IN
         IF ~v.ok THEN [ok |-> FALSE, pairs |-> <<>>]
         ELSE LET n == SkipWs(seg, v.next)
                  ps == Append(acc, [key |-> k.v.s, val |-> v.v]) IN
              CASE At(seg, n) = "," -> ParsePairs(seg, n + 1, ps)
                [] At(seg, n) = "}" /\ n = Len(seg) -> [ok |-> TRUE, pairs |-> ps]
                [] OTHER -> [ok |-> FALSE, pairs |-> <<>>]

\* json.loads(json_str): ok = FALSE is json.JSONDecodeError.
json_loads(seg) ==
    IF At(seg, 1) # "{" THEN [ok |-> FALSE, pairs |-> <<>>]
    ELSE IF At(seg, SkipWs(seg, 2)) = "}" /\ SkipWs(seg, 2) = Len(seg)
         THEN [ok |-> TRUE, pairs |-> <<>>]
         ELSE ParsePairs(seg, 2, <<>>)

\* dict.get(key, default): the last member with the key wins.
dict_get(data, key, default) ==
    LET ks == {i \in 1..Len(data.pairs) : data.pairs[i].key = key} IN
    IF ks = {} THEN default
    ELSE data.pairs[CHOOSE i \in ks : \A k \in ks : k <= i].val

\* ------------------------------------------------------------------ parser: result
\* PromptImprovementResult.__init__: success is computed once, from the error
\* given to the constructor.
PromptImprovementResult(improved_prompt, alternatives, error) ==
    [improved_prompt |-> improved_prompt, alternatives |-> alternatives,
     code_version |-> NoneStr, analysis_version |-> NoneStr, creative_version |-> NoneStr,
     error |-> error, success |-> (error = NoError), raised |-> "no"]

ErrEmptyResponse == "empty response from the model"
ErrNotExtracted == "improved prompt not extracted"

\* An exception that leaves parse_improvement_response.
Raised(exc) == [PromptImprovementResult(<<>>, <<>>, NoError) EXCEPT !.raised = exc]

\* [alt.strip() for alt in xs if alt.strip()]
RECURSIVE StripNonEmpty(_)
StripNonEmpty(xs) ==
    IF xs = <<>> THEN <<>>
    ELSE (IF strip(Head(xs)) = <<>> THEN <<>> ELSE <<strip(Head(xs))>>) \o StripNonEmpty(Tail(xs))

\* xs[:n]
Take(xs, n) == SubSeq(xs, 1, IF Len(xs) < n THEN Len(xs) ELSE n)
TakeThree(xs) == Take(xs, 3)
\* The JSON branch keeps every non-empty alternative of the decoded list.
JsonAlternatives(xs) == StripNonEmpty(xs)

\* Iterating the value of "alternatives": a list gives its elements, a str its
\* characters; None and int are not iterable.
Iterable(v) == v.t \in {"list", "str"}
ElementsAreStr(v) == v.t = "str" \/ \A i \in 1..Len(v.items) : v.items[i].t = "str"
Elements(v) ==
    IF v.t = "str" THEN [i \in 1..Len(v.s) |-> <<v.s[i]>>]
    ELSE [i \in 1..Len(v.items) |-> v.items[i].s]

\* data.get(key, "").strip() or None
VersionOf(data, key) ==
    LET v == strip(dict_get(data, key, JStr(<<>>)).s) IN
    IF v = <<>> THEN NoneStr ELSE Some(v)

VersionKeys == {<<"code_version">>, <<"analysis_version">>, <<"creative_version">>}

\* The assignments after json.loads: a value without strip() raises
\* AttributeError, a value that cannot be iterated raises TypeError; neither is
\* json.JSONDecodeError, so both leave the function.
FromJson(data) ==
    LET improved == dict_get(data, <<"improved">>, JStr(<<>>))
        alts == dict_get(data, <<"alternative", "s">>, JList(<<>>)) IN
    IF improved.t # "str" THEN Raised("AttributeError")
    ELSE IF ~Iterable(alts) THEN Raised("TypeError")
    ELSE IF ~ElementsAreStr(alts) THEN Raised("AttributeError")
    ELSE IF \E k \in VersionKeys : dict_get(data, k, JStr(<<>>)).t # "str"
         THEN Raised("AttributeError")
    ELSE [PromptImprovementResult(strip(improved.s), JsonAlternatives(Elements(alts)), NoError)
            EXCEPT !.code_version = VersionOf(data, <<"code_version">>),
                   !.analysis_version = VersionOf(data, <<"analysis_version">>),
                   !.creative_version = VersionOf(data, <<"creative_version">>)]

\* ------------------------------------------------------------------ parser: text layers
\* Terminators of the lazy group (.+?), as predicates of the position where the
\* terminator starts.
NN(text, e) == At(text, e) = NL /\ At(text, e + 1) = NL
AtDollar(text, e) == e = Len(text) + 1 \/ (e = Len(text) /\ text[e] = NL)
NLThen(text, e, words) ==
    At(text, e) = NL /\ (lower(At(text, e + 1)) \in words \/ e = Len(text))

TermImproved1(text, e) ==
    NN(text, e) \/ NLThen(text, e, {"alternative", "code_version", "analysis_version",
                                    "creative_version"})
TermImproved2(text, e) == NN(text, e) \/ (At(text, e) = NL /\ At(text, e + 1) = "2.")
TermHeading(text, e) == (NN(text, e) /\ At(text, e + 2) = "#") \/ AtDollar(text, e)
TermAlt1(text, e) ==
    NN(text, e) \/ NLThen(text, e, {"code_version", "analysis_version", "creative_version"})
TermAlt2(text, e) == NN(text, e) \/ (At(text, e) = NL /\ At(text, e + 1) = "3.")
TermCode(text, e) == NN(text, e) \/ NLThen(text, e, {"analysis_version", "creative_version"})
TermAnalysis(text, e) == NN(text, e) \/ NLThen(text, e, {"creative_version"})
TermCreative(text, e) == NN(text, e) \/ AtDollar(text, e)

\* The terminator of the pattern named term.
Terminates(term, text, e) ==
    CASE term = "TermImproved1" -> TermImproved1(text, e)
      [] term = "TermImproved2" -> TermImproved2(text, e)
      [] term = "TermHeading" -> TermHeading(text, e)
      [] term = "TermAlt1" -> TermAlt1(text, e)
      [] term = "TermAlt2" -> TermAlt2(text, e)
      [] term = "TermCode" -> TermCode(text, e)
      [] term = "TermAnalysis" -> TermAnalysis(text, e)
      [] OTHER -> TermCreative(text, e)

\* End of the lazy group that starts at g: the first terminator after at least
\* one character; 0 when there is none.
GroupEnd(text, g, term) ==
    LET es == {e \in (g + 1)..(Len(text) + 1) : Terminates(term, text, e)} IN
    IF es = {} THEN 0 ELSE CHOOSE e \in es : \A k \in es : e <= k

\* Position of the marker word when the prefix of the pattern starts at i.
MarkerAt(text, i, prefix) ==
    CASE prefix = "" -> i
      [] prefix = "#" -> IF At(text, i) # "#" THEN 0
                         ELSE IF At(text, i + 1) = "#" THEN SkipWs(text, i + 2)
                         ELSE SkipWs(text, i + 1)
      [] OTHER -> IF At(text, i) # prefix THEN 0 ELSE SkipWs(text, i + 1)

\* Start of the group for `marker[:\-]?\s*\n?\s*(.+?)term` with the marker at
\* m: the greedy parts give characters back until a terminator can follow, so
\* the group starts after the longest whitespace run that leaves a match, and
\* at the ":" itself when nothing after it does; 0 when no match starts here.
GroupStart(text, m, term) ==
    LET c == m + 1
        colon == At(text, c) \in {":", "-"}
        base == IF colon THEN c + 1 ELSE c
        good == {g \in base..SkipWs(text, base) : GroupEnd(text, g, term) # 0} IN
    IF good # {} THEN CHOOSE g \in good : \A k \in good : k <= g
    ELSE IF colon /\ GroupEnd(text, c, term) # 0 THEN c
    ELSE 0

MatchesAt(text, i, prefix, markers, term) ==
    LET m == MarkerAt(text, i, prefix) IN
    /\ m # 0
    /\ lower(At(text, m)) \in markers
    /\ GroupStart(text, m, term) # 0

\* The match object of a match whose group starts at g.
MatchWithGroup(text, g, term) ==
    [found |-> TRUE, group1 |-> SubSeq(text, g, GroupEnd(text, g, term) - 1)]

\* The match that starts at the leftmost of the positions is.
LeftmostMatch(text, is, prefix, term) ==
    IF is = {} THEN [found |-> FALSE, group1 |-> <<>>]
    ELSE MatchWithGroup(text,
             GroupStart(text, MarkerAt(text, CHOOSE i \in is : \A k \in is : i <= k, prefix),
                        term),
             term)

\* re.search(pattern, text, re.IGNORECASE | re.DOTALL): the leftmost match;
\* group1 is match.group(1).
re_search(text, prefix, markers, term) ==
    LeftmostMatch(text, {i \in 1..Len(text) : MatchesAt(text, i, prefix, markers, term)},
                  prefix, term)

\* `for pattern in patterns: ... if match: ... break`: the first pattern that
\* matches decides.
FirstFound(p1, p2, p3) == IF p1.found THEN p1 ELSE IF p2.found THEN p2 ELSE p3

\* The loop over improved_patterns.
improved_match(text) ==
    FirstFound(re_search(text, "", {"improved"}, "TermImproved1"),
               re_search(text, "1.", {"improved"}, "TermImproved2"),
               re_search(text, "#", {"improved"}, "TermHeading"))

\* The loop over alternatives_patterns.
alternatives_match(text) ==
    FirstFound(re_search(text, "", {"alternative"}, "TermAlt1"),
               re_search(text, "2.", {"alternative"}, "TermAlt2"),
               re_search(text, "#", {"alternative"}, "TermHeading"))

RECURSIVE split(_, _)
\* str.split(sep) for a one-token separator.
split(text, sep) ==
    LET ps == {i \in 1..Len(text) : text[i] = sep} IN
    IF ps = {} THEN <<text>>
    ELSE LET i == CHOOSE i \in ps : \A k \in ps : i <= k IN
         <<SubSeq(text, 1, i - 1)>> \o split(SubSeq(text, i + 1, Len(text)), sep)

\* '\n'.join(xs)
RECURSIVE join(_)
join(xs) ==
    IF xs = <<>> THEN <<>>
    ELSE IF Len(xs) = 1 THEN xs[1]
    ELSE xs[1] \o <<NL>> \o join(Tail(xs))

\* Every non-empty stripped line, joined.
AllLines(text) == join(StripNonEmpty(split(text, NL)))

\* The first 5 non-empty stripped lines, joined.
FirstLines(text) == join(Take(StripNonEmpty(split(text, NL)), 5))

ListMarkers == {"-", "*", "1.", "2.", "3."}
\* A separator of re.split(r'\n\s*[-*]\s*|\n\s*\d+\.\s*') starts at i.
ItemBreakAt(text, i) == At(text, i) = NL /\ At(text, SkipWs(text, i + 1)) \in ListMarkers

RECURSIVE re_split_items(_)
re_split_items(text) ==
    LET ps == {i \in 1..Len(text) : ItemBreakAt(text, i)} IN
    IF ps = {} THEN <<text>>
    ELSE LET i == CHOOSE i \in ps : \A k \in ps : i <= k
             rest == SkipWs(text, SkipWs(text, i + 1) + 1) IN
         <<SubSeq(text, 1, i - 1)>> \o re_split_items(SubSeq(text, rest, Len(text)))

\* group(1).strip() of a match, else the value held before.
GroupOr(m, old) == IF m.found THEN strip(m.group1) ELSE old

\* The fallback: the first lines when no improved version was found.
OrFirstLines(text, improved) == IF improved = <<>> THEN FirstLines(text) ELSE improved

\* The alternatives of a match of alternatives_patterns: split at the list
\* markers, stripped, the empty ones dropped, the first 3 kept.
AlternativesOr(m, old) ==
    IF m.found THEN TakeThree(StripNonEmpty(re_split_items(strip(m.group1)))) ELSE old

\* group(1).strip() of an adapted-version pattern, when it matches.
VersionOr(m, old) == IF m.found THEN Some(strip(m.group1)) ELSE old

\* The final validation: no improved prompt is an error.
Validated(r) ==
    [r EXCEPT !.error = IF r.improved_prompt = <<>> THEN ErrNotExtracted ELSE r.error]

\* The text parsing that follows the JSON attempt; r holds what the JSON
\* attempt assigned.
TextLayers(text, r) ==
    Validated(
        [r EXCEPT
            !.improved_prompt = OrFirstLines(text, GroupOr(improved_match(text), r.improved_prompt)),
            !.alternatives = AlternativesOr(alternatives_match(text), r.alternatives),
            !.code_version =
                VersionOr(re_search(text, "", {"code_version"}, "TermCode"), r.code_version),
            !.analysis_version =
                VersionOr(re_search(text, "", {"analysis_version"}, "TermAnalysis"),
                          r.analysis_version),
            !.creative_version =
                VersionOr(re_search(text, "", {"creative_version"}, "TermCreative"),
                          r.creative_version)])

\* A parser that applies the text layers after every JSON attempt.
AlwaysTextLayers(text, fromJson) ==
    IF fromJson.raised # "no" THEN fromJson ELSE TextLayers(text, fromJson)

\* `if result.improved_prompt: return result` after the JSON assignments; an
\* exception other than JSONDecodeError has left the function.
AfterAssignments(text, fromJson) ==
    IF fromJson.raised # "no" \/ fromJson.improved_prompt # <<>> THEN fromJson
    ELSE TextLayers(text, fromJson)

\* The JSON attempt on the regex match jm; r is the fresh result.
JsonAttempt(text, jm, data, r) ==
    IF ~jm.found \/ ~data.ok THEN TextLayers(text, r)
    ELSE AfterAssignments(text, FromJson(data))

\* The part of the function after the blank check, on the JSON regex match.
AfterBlankCheck(text, jm, r) == JsonAttempt(text, jm, json_loads(jm.group0), r)

\* A blank check that lets whitespace-only text through.
EmptyOnly(text) == text = <<>>

\* `if not response_text or not response_text.strip()`
Blank(text) == text = <<>> \/ strip(text) = <<>>

\* parse_improvement_response(response_text, original_prompt, model_name)
parse_improvement_response(text) ==
    IF Blank(text)
    THEN [PromptImprovementResult(<<>>, <<>>, NoError) EXCEPT !.error = ErrEmptyResponse]
    ELSE AfterBlankCheck(text, json_search(text), PromptImprovementResult(<<>>, <<>>, NoError))

\* ------------------------------------------------------------------ parser: inputs
\* Largest number of entries of a generated "alternatives" array.
MaxAlternatives == 4
\* Largest length, in tokens, of a generated text without JSON.
MaxPlainLen == 3

AltWords == <<"A", "B", "C", "D", "E", "F">>

RECURSIVE RenderList(_)
RenderList(vs) ==
    IF vs = <<>> THEN <<>>
    ELSE (IF vs[1].t = "str" THEN <<Q>> \o vs[1].s \o <<Q>>
          ELSE IF vs[1].t = "null" THEN <<"null">> ELSE <<"7">>)
         \o (IF Len(vs) = 1 THEN <<>> ELSE <<",">> \o RenderList(Tail(vs)))

\* The JSON text of a value.
Render(v) ==
    CASE v.t = "str" -> <<Q>> \o v.s \o <<Q>>
      [] v.t = "null" -> <<"null">>
      [] v.t = "num" -> <<"7">>
      [] OTHER -> <<"[">> \o RenderList(v.items) \o <<"]">>

Member(key, v) == <<Q>> \o key \o <<Q, ":">> \o Render(v)

ElemStr(ts) == [t |-> "str", s |-> ts]
ImprovedValues ==
    {JStr(<<"X">>), JStr(<<SP, "X", NL>>), JStr(<<>>), JStr(<<SP>>), JNull, JNum}
AlternativesValues ==
    {JList([i \in 1..n |-> ElemStr(<<AltWords[i]>>)]) : n \in 0..MaxAlternatives}
    \cup {JList([i \in 1..n |-> ElemStr(IF i = 2 THEN <<SP>> ELSE <<SP, AltWords[i]>>)]) :
             n \in 2..MaxAlternatives}
    \cup {JNull, JNum, JStr(<<"A", SP, "B">>), JList(<<ElemStr(<<"A">>), [t |-> "null", s |-> <<>>]>>)}
VersionMembers ==
    {<<>>,
     <<",">> \o Member(<<"code_version">>, JStr(<<"V">>)),
     <<",">> \o Member(<<"code_version">>, JStr(<<>>))
         \o <<",">> \o Member(<<"creative_version">>, JStr(<<"W">>)),
     <<",">> \o Member(<<"analysis_version">>, JNull)}
\* What closes the object: well formed, or with a trailing comma.
Closings == {<<"}">>, <<",", "}">>}
Prefixes == {<<>>, <<"improved", ":", NL>>}
Suffixes == {<<>>, <<NL, "alternative", ":", "Y", NL>>}

JsonTexts ==
    {pre \o <<"{">> \o Member(<<"improved">>, iv) \o am \o vm \o cl \o suf :
        pre \in Prefixes, iv \in ImprovedValues,
        am \in {<<>>} \cup {<<",">> \o Member(<<"alternative", "s">>, av) : av \in AlternativesValues},
        vm \in VersionMembers, cl \in Closings, suf \in Suffixes}

PlainTokens == {"X", SP, NL, "Improved", ":", "alternative", "-", "1.", "#"}
PlainTexts == UNION {[1..n -> PlainTokens] : n \in 0..MaxPlainLen}

\* Largest number of lines of a generated text of plain lines.
MaxLines == 6
LineWords == <<"A", "B", "C", "D", "E", "F", "G", "H">>
\* Texts of 1..MaxLines lines without JSON and without markers; in the second
\* family the second line is whitespace only.
LinesTexts ==
    {join([i \in 1..n |-> <<SP, LineWords[i], SP>>]) : n \in 1..MaxLines}
    \cup {join([i \in 1..n |-> IF i = 2 THEN <<SP>> ELSE <<LineWords[i]>>]) : n \in 2..MaxLines}

\* Texts without JSON in which a line with the marker of the improved version
\* is followed by a blank line and, possibly, by other sections.
MarkerTexts ==
    {pre \o <<m>> \o sep \o body \o <<NL, NL>> \o rest :
        pre \in {<<>>, <<"X", NL>>},
        m \in {"improved", "Improved"},
        sep \in {<<":", SP>>, <<":">>, <<SP>>, <<"-", SP>>},
        body \in {<<"X">>, <<"X", SP, "X", SP>>},
        rest \in {<<>>,
                  <<"alternative", ":", NL, "-", SP, "A", NL, "-", SP, "B">>,
                  <<"code_version", ":", SP, "V", NL, NL, "X">>}}

\* The list items of an alternatives block: "- A", "- B", ... or "1. A", "2. B", ...
NumberMarks == <<"1.", "2.", "3.">>
ItemLines(style, n) ==
    join([i \in 1..n |-> <<IF style = "-" THEN "-" ELSE NumberMarks[i], SP, LineWords[i]>>])

\* Texts without JSON in which a line with the marker of the alternatives (in
\* the singular, in the plural, or as a heading) is followed by a list of
\* 1..MaxItems items and a blank line.
MaxItems == 4
AlternativesHeads ==
    {pre \o head :
        pre \in {<<>>, <<"Improved", ":", SP, "X", NL, NL>>},
        head \in {<<"alternative", ":", NL>>, <<"alternative", "s", ":", NL>>,
                  <<"#", SP, "alternative", NL>>}}
AlternativesTexts ==
    {h \o ItemLines("-", n) \o <<NL, NL>> : h \in AlternativesHeads, n \in 1..MaxItems}
    \cup {h \o ItemLines("1.", n) \o <<NL, NL>> :
             h \in AlternativesHeads, n \in 1..Len(NumberMarks)}

RawTexts == JsonTexts \cup PlainTexts \cup LinesTexts \cup MarkerTexts \cup AlternativesTexts

NotParsed == [done |-> FALSE, result |-> PromptImprovementResult(<<>>, <<>>, NoError)]

\* ------------------------------------------------------------------ inputs
\* models.Model: the i-th target of a batch has registry id IdOf(i) (ids are
\* distinct) and the credential reference api_id of its registry row.
IdOf(i) == 10 + i
Model(i, api_id) == [id |-> IdOf(i), api_id |-> api_id]

\* The model_type values the model dialog offers (main.py, model_type_combo).
ProviderKinds == {"openrouter", "openai", "deepseek", "groq", "anthropic"}

\* A target whose registry row declares a provider kind.
TypedModel(i, api_id, model_type) ==
    [id |-> IdOf(i), api_id |-> api_id, model_type |-> model_type]

\* The request adapters of network.py, by the provider kind they were written for.
AdapterByType(model) ==
    CASE model.model_type = "openai" -> "send_openai_request"
      [] model.model_type = "deepseek" -> "send_deepseek_request"
      [] model.model_type = "groq" -> "send_groq_request"
      [] model.model_type = "anthropic" -> "send_anthropic_request"
      [] OTHER -> "send_openrouter_request"

\* The adapter send_prompt_to_model calls: send_openrouter_request, for every model.
AdapterOf(model) == "send_openrouter_request"

\* No adapter has been called.
NoWire == [adapter |-> "none", credential |-> NoneStr, calls |-> 0]

\* The `models` argument: None, or a list of 0..MaxTargets models.
ModelLists ==
    {[isNone |-> TRUE, items |-> <<>>]} \cup
    {[isNone |-> FALSE, items |-> [i \in 1..n |-> Model(i, "OPENROUTER_API_KEY")]] :
        n \in 0..MaxTargets}

\* ------------------------------------------------------------------ state
VARIABLES
    env,            \* os.environ restricted to EnvNames
    models,         \* the `models` argument: [isNone, items]
    callback,       \* the progress_callback argument: "none", "returns", "raises"
    net,            \* what the HTTP exchange of each worker did, "none" before
    wire,           \* the adapter each worker called and the credential it passed
    mainpc,         \* position of the thread that called send_prompts_parallel
    started,        \* number of threads started by the first loop
    joined,         \* number of threads joined by the second loop
    wpc,            \* position of each worker thread
    inExcept,       \* worker is in the except branch of send_to_model
    response,       \* worker's local `response`
    results,        \* the shared list `results`
    results_lock,   \* holder of results_lock, 0 when free
    progressLog,    \* calls made to progress_callback: [by, completed, total]
    transportCalls, \* HTTP posts issued per target
    returned,       \* value returned by send_prompts_parallel: [done, list]
    successful,     \* on_request_finished's count of successes, -1 before
    rawText,        \* the response_text handed to parse_improvement_response
    parsed,         \* its outcome: [done, result]
    table,          \* the rows of the models table; a row's id is its position
    models_cache,   \* ModelManager._models_cache: [some, list]
    active_models_cache, \* ModelManager._active_models_cache: [some, list]
    stale,          \* per cache: an invalidation came after its last read
    loads,          \* per cache: unforced loads since the last invalidation
    lastCall,       \* the last call on the registry or the table, and its result
    original_prompt, \* the original_prompt argument of improve_prompt_via_model
    improvement,    \* the outcome of improve_prompt_via_model
    caller,         \* per thread: its position inside a list call of the registry
    mutator,        \* the thread that changes the table and then invalidates
    selected,       \* MainWindow.send_request: the models dispatched to, now and before
    gui,            \* MainWindow: the send and cancel buttons, and what the handlers did
    posted          \* signals of the RequestThread queued for the GUI thread

\* The state of the registry and of the table behind it.
regVars == <<table, models_cache, active_models_cache, stale, loads, lastCall>>

\* The state outside the registry.
otherVars == <<env, models, callback, net, wire, mainpc, started, joined, wpc, inExcept, response,
               results, results_lock, progressLog, transportCalls, returned, successful,
               rawText, parsed>>

\* The state of the prompt improvement.
extVars == <<original_prompt, improvement, caller, mutator, selected>>

\* The state of the main window and of its event queue.
guiVars == <<gui, posted>>

vars == <<otherVars, regVars, extVars, guiVars>>

N == Len(models.items)
Workers == 1..N

\* ------------------------------------------------------------------ Init
\* State at the entry of send_prompts_parallel(models, prompt, progress_callback).
\* Optional[List[Model]]
NoList == [some |-> FALSE, list |-> <<>>]
SomeList(ms) == [some |-> TRUE, list |-> ms]

\* No call has been made yet.
NoCall ==
    [op |-> "none", force |-> FALSE, cache |-> "none", had |-> FALSE, read |-> FALSE,
     failed |-> FALSE, raised |-> "no", cacheKept |-> TRUE, retIsCache |-> FALSE,
     ret |-> <<>>, validation |-> <<>>, name |-> "", tableKept |-> TRUE]

\* improve_prompt_via_model has not been called.
NotImproved ==
    [done |-> FALSE, exc |-> "no", net |-> "none", posts |-> 0, raised |-> "no",
     result |-> PromptImprovementResult(<<>>, <<>>, NoError)]

\* Largest number of threads that call the registry at the same time.
MaxCallers == 2
Callers == 1..MaxCallers

\* A thread outside any call of the registry.
IdleCaller ==
    [pc |-> "idle", which |-> "all", local |-> <<>>, epoch |-> 0, returned |-> FALSE,
     ret |-> NoList, raised |-> "no"]

\* The state outside a prompt improvement, with no thread inside the registry.
NoImprovement ==
    /\ original_prompt = <<>>
    /\ improvement = NotImproved
    /\ caller = [t \in Callers |-> IdleCaller]
    /\ mutator = [pc |-> "idle", count |-> 0]
    /\ selected = [list |-> <<>>, before |-> <<>>, sent |-> 0]

\* The main window while a batch is in flight (end of send_request) and before.
Sending == [send_btn |-> FALSE, cancel_btn |-> TRUE, cancelled |-> FALSE, temp_results |-> NoList]
IdleWindow == [send_btn |-> TRUE, cancel_btn |-> FALSE, cancelled |-> FALSE, temp_results |-> NoList]

\* No RequestThread has been created.
NoRequestThread ==
    /\ gui = IdleWindow
    /\ posted = <<>>

\* ModelManager.__init__ on an empty models table.
ModelManager_init ==
    /\ table = <<>>
    /\ models_cache = NoList
    /\ active_models_cache = NoList
    /\ stale = [all |-> FALSE, active |-> FALSE]
    /\ loads = [all |-> 0, active |-> 0]
    /\ lastCall = NoCall

Entry ==
    /\ net = [w \in Workers |-> "none"]
    /\ wire = [w \in Workers |-> NoWire]
    /\ mainpc = "call"
    /\ started = 0
    /\ joined = 0
    /\ wpc = [w \in Workers |-> "idle"]
    /\ inExcept = [w \in Workers |-> FALSE]
    /\ response = [w \in Workers |-> NoResponse]
    /\ results = <<>>
    /\ results_lock = 0
    /\ progressLog = <<>>
    /\ transportCalls = [w \in Workers |-> 0]
    /\ returned = [done |-> FALSE, list |-> <<>>]
    /\ successful = -1

Init ==
    /\ env \in {[OPENROUTER_API_KEY |-> v, OTHER_API_KEY |-> NoneStr] : v \in EnvValues}
    /\ models \in ModelLists
    /\ callback \in {"none", "returns", "raises"}
    /\ Entry
    /\ rawText = <<>>
    /\ parsed = NotParsed
    /\ ModelManager_init
    /\ NoImprovement
    /\ NoRequestThread

\* The three-target batch A, B, C; A's credential reference is a variable the
\* environment does not set.
ScenarioModels ==
    <<Model(1, "OTHER_API_KEY"), Model(2, "OPENROUTER_API_KEY"), Model(3, "OPENROUTER_API_KEY")>>

InitE2E ==
    /\ env \in {[OPENROUTER_API_KEY |-> v, OTHER_API_KEY |-> NoneStr] : v \in EnvValues}
    /\ models = [isNone |-> FALSE, items |-> ScenarioModels]
    /\ callback \in {"none", "returns", "raises"}
    /\ Entry
    /\ rawText = <<>>
    /\ parsed = NotParsed
    /\ ModelManager_init
    /\ NoImprovement
    /\ NoRequestThread

\* ------------------------------------------------------------------ calling thread
\* Entry of send_prompts_parallel: `for model in models` raises TypeError on
\* None before any thread exists; an empty list skips both loops.
Call ==
    /\ mainpc = "call"
    /\ mainpc' = IF models.isNone THEN "raised" ELSE IF N = 0 THEN "join" ELSE "spawn"
    /\ UNCHANGED <<guiVars, extVars, regVars, rawText, parsed, env, models, callback, net, wire, started, joined, wpc, inExcept, response,
                   results, results_lock, progressLog, transportCalls, returned, successful>>

\* First loop: thread.start() for the next model.
StartThread ==
    /\ mainpc = "spawn"
    /\ started < N
    /\ started' = started + 1
    /\ wpc' = [wpc EXCEPT ![started + 1] = "send"]
    /\ mainpc' = IF started + 1 = N THEN "join" ELSE "spawn"
    /\ UNCHANGED <<guiVars, extVars, regVars, rawText, parsed, env, models, callback, net, wire, joined, inExcept, response, results,
                   results_lock, progressLog, transportCalls, returned, successful>>

\* thread.join() returns once the thread has terminated, normally or by an
\* exception that left send_to_model.
JoinNoWait(pc) == TRUE
Terminated(pc) == pc \in {"done", "died"}

\* Second loop: thread.join() for the next thread, in start order.
JoinThread ==
    /\ mainpc = "join"
    /\ joined < N
    /\ Terminated(wpc[joined + 1])
    /\ joined' = joined + 1
    /\ UNCHANGED <<guiVars, extVars, regVars, rawText, parsed, env, models, callback, net, wire, mainpc, started, wpc, inExcept, response,
                   results, results_lock, progressLog, transportCalls, returned, successful>>

\* `return results` after the second loop.
Return ==
    /\ mainpc = "join"
    /\ joined = N
    /\ returned' = [done |-> TRUE, list |-> results]
    /\ mainpc' = "returned"
    /\ UNCHANGED <<guiVars, extVars, regVars, rawText, parsed, env, models, callback, net, wire, started, joined, wpc, inExcept, response,
                   results, results_lock, progressLog, transportCalls, successful>>

RECURSIVE CountSuccess(_)
\* sum(1 for r in results if r.success)
CountSuccess(rs) ==
    IF rs = <<>> THEN 0 ELSE (IF Head(rs).success THEN 1 ELSE 0) + CountSuccess(Tail(rs))

\* MainWindow.on_request_finished: the caller-side success count.
on_request_finished ==
    /\ mainpc = "returned"
    /\ successful = -1
    /\ successful' = CountSuccess(returned.list)
    /\ UNCHANGED <<guiVars, extVars, regVars, rawText, parsed, env, models, callback, net, wire, mainpc, started, joined, wpc, inExcept,
                   response, results, results_lock, progressLog, transportCalls, returned>>

\* ------------------------------------------------------------------ worker threads
\* send_prompt_to_model(model, prompt), called in the try block of
\* send_to_model: resolve the key; without a key return the credential-missing
\* outcome and send nothing, otherwise issue the HTTP POST and turn what the
\* exchange does into an outcome.
send_prompt_to_model(w) ==
    /\ wpc[w] = "send"
    /\ LET api_key == Model_get_api_key(env, models.items[w]) IN
         IF KeyMissing(api_key)
         THEN /\ response' = [response EXCEPT ![w] = CredentialMissingResponse(models.items[w])]
              /\ UNCHANGED <<transportCalls, net, wire>>
         ELSE /\ transportCalls' = [transportCalls EXCEPT ![w] = @ + 1]
              /\ wire' = [wire EXCEPT ![w] = [adapter |-> AdapterOf(models.items[w]),
                                               credential |-> api_key,
                                               calls |-> @.calls + 1]]
              /\ \E o \in TransportOutcomes :
                   /\ net' = [net EXCEPT ![w] = o.kind]
                   /\ response' = [response EXCEPT ![w] = ResponseOfTransport(models.items[w], o)]
    /\ wpc' = [wpc EXCEPT ![w] = "lock"]
    /\ UNCHANGED <<guiVars, extVars, regVars, rawText, parsed, env, models, callback, mainpc, started, joined, inExcept, results,
                   results_lock, progressLog, returned, successful>>

\* Leaving `with results_lock:`, normally or by an exception, frees the lock.
StillHeld(holder) == holder
Released(holder) == 0

\* threading.Lock: acquire succeeds only on a free lock.
LockIgnored(lock) == TRUE
LockFree(lock) == lock = 0

\* `with results_lock:` entered (try branch or except branch).
Acquire(w) ==
    /\ wpc[w] = "lock"
    /\ LockFree(results_lock)
    /\ results_lock' = w
    /\ wpc' = [wpc EXCEPT ![w] = "append"]
    /\ UNCHANGED <<guiVars, extVars, regVars, rawText, parsed, env, models, callback, net, wire, mainpc, started, joined, inExcept, response,
                   results, progressLog, transportCalls, returned, successful>>

\* list.append puts the outcome at the end of the list.
Prepend(rs, r) == <<r>> \o rs
list_append(rs, r) == Append(rs, r)

\* results.append(response) / results.append(error_response)
AppendResult(w) ==
    /\ wpc[w] = "append"
    /\ results' = list_append(results, IF inExcept[w] THEN error_response(models.items[w])
                                                     ELSE response[w])
    /\ wpc' = [wpc EXCEPT ![w] = "cb"]
    /\ UNCHANGED <<guiVars, extVars, regVars, rawText, parsed, env, models, callback, net, wire, mainpc, started, joined, inExcept, response,
                   results_lock, progressLog, transportCalls, returned, successful>>

\* progress_callback(len(results), len(models))
ProgressCall(w) == [by |-> models.items[w].id, completed |-> Len(results), total |-> N]

\* `if progress_callback:` is false: leave the with block.
NoCallback(w) ==
    /\ wpc[w] = "cb"
    /\ callback = "none"
    /\ results_lock' = Released(results_lock)
    /\ wpc' = [wpc EXCEPT ![w] = "done"]
    /\ UNCHANGED <<guiVars, extVars, regVars, rawText, parsed, env, models, callback, net, wire, mainpc, started, joined, inExcept, response,
                   results, progressLog, transportCalls, returned, successful>>

\* The callback is called and returns; the with block releases the lock.
CallbackReturns(w) ==
    /\ wpc[w] = "cb"
    /\ callback \in {"returns", "raises"}
    /\ progressLog' = Append(progressLog, ProgressCall(w))
    /\ results_lock' = Released(results_lock)
    /\ wpc' = [wpc EXCEPT ![w] = "done"]
    /\ UNCHANGED <<guiVars, extVars, regVars, rawText, parsed, env, models, callback, net, wire, mainpc, started, joined, inExcept, response,
                   results, transportCalls, returned, successful>>

\* The callback is called and raises; the with block releases the lock. In the
\* try branch the exception enters `except Exception`, which appends
\* error_response and calls the callback again; in the except branch it leaves
\* send_to_model and ends the thread.
CallbackRaises(w) ==
    /\ wpc[w] = "cb"
    /\ callback = "raises"
    /\ progressLog' = Append(progressLog, ProgressCall(w))
    /\ results_lock' = Released(results_lock)
    /\ IF inExcept[w]
       THEN /\ wpc' = [wpc EXCEPT ![w] = "died"]
            /\ UNCHANGED inExcept
       ELSE /\ wpc' = [wpc EXCEPT ![w] = "lock"]
            /\ inExcept' = [inExcept EXCEPT ![w] = TRUE]
    /\ UNCHANGED <<guiVars, extVars, regVars, rawText, parsed, env, models, callback, net, wire, mainpc, started, joined, response, results,
                   transportCalls, returned, successful>>

SendStep == \E w \in Workers : send_prompt_to_model(w)
AcquireStep == \E w \in Workers : Acquire(w)
AppendStep == \E w \in Workers : AppendResult(w)
NoCallbackStep == \E w \in Workers : NoCallback(w)
CallbackReturnsStep == \E w \in Workers : CallbackReturns(w)
CallbackRaisesStep == \E w \in Workers : CallbackRaises(w)

Next ==
    \/ Call
    \/ StartThread
    \/ JoinThread
    \/ Return
    \/ on_request_finished
    \/ SendStep
    \/ AcquireStep
    \/ AppendStep
    \/ NoCallbackStep
    \/ CallbackReturnsStep
    \/ CallbackRaisesStep

Spec == Init /\ [][Next]_vars

SpecE2E == InitE2E /\ [][Next]_vars

\* Everything the thread of target w does inside send_to_model.
Worker(w) ==
    /\ w \in Workers
    /\ \/ send_prompt_to_model(w)
       \/ Acquire(w)
       \/ AppendResult(w)
       \/ NoCallback(w)
       \/ CallbackReturns(w)
       \/ CallbackRaises(w)

\* Everything the calling thread does inside send_prompts_parallel.
Caller == Call \/ StartThread \/ JoinThread \/ Return

\* Every thread that can take a step eventually takes one; requests.post has
\* returned or raised (timeout=60) by the time send_prompt_to_model steps.
Fairness ==
    /\ WF_vars(Caller)
    /\ \A w \in 1..MaxTargets : WF_vars(Worker(w))

\* Entry of send_prompts_parallel with the gateway credential absent or present.
InitFair ==
    /\ env \in {[OPENROUTER_API_KEY |-> v, OTHER_API_KEY |-> NoneStr] :
                   v \in {NoneStr, Some(<<"k", SP>>)}}
    /\ models \in ModelLists
    /\ callback \in {"none", "returns", "raises"}
    /\ Entry
    /\ rawText = <<>>
    /\ parsed = NotParsed
    /\ ModelManager_init
    /\ NoImprovement
    /\ NoRequestThread

SpecFair == InitFair /\ [][Next]_vars /\ Fairness

\* Largest batch whose targets declare a provider kind of their own.
MaxTypedTargets == 1

\* Batches whose targets declare any provider kind and any credential reference;
\* the gateway credential is absent or present.
InitKinds ==
    /\ env \in {[OPENROUTER_API_KEY |-> v, OTHER_API_KEY |-> Some(<<"o">>)] :
                   v \in {NoneStr, Some(<<"k", SP>>)}}
    /\ \E n \in 1..MaxTypedTargets :
         \E kinds \in [1..n -> ProviderKinds], ids \in [1..n -> EnvNames] :
           models = [isNone |-> FALSE,
                     items |-> [i \in 1..n |-> TypedModel(i, ids[i], kinds[i])]]
    /\ callback \in {"none", "raises"}
    /\ Entry
    /\ rawText = <<>>
    /\ parsed = NotParsed
    /\ ModelManager_init
    /\ NoImprovement
    /\ NoRequestThread

SpecKinds == InitKinds /\ [][Next]_vars

\* ------------------------------------------------------------------ parser: specification
InitParse ==
    /\ env = [OPENROUTER_API_KEY |-> NoneStr, OTHER_API_KEY |-> NoneStr]
    /\ models = [isNone |-> FALSE, items |-> <<>>]
    /\ callback = "none"
    /\ Entry
    /\ rawText \in RawTexts
    /\ parsed = NotParsed
    /\ ModelManager_init
    /\ NoImprovement
    /\ NoRequestThread

\* A call of parse_improvement_response on the raw text.
Parse ==
    /\ ~parsed.done
    /\ parsed' = [done |-> TRUE, result |-> parse_improvement_response(rawText)]
    /\ UNCHANGED <<guiVars, extVars, regVars, rawText, env, models, callback, net, wire, mainpc, started, joined, wpc, inExcept,
                   response, results, results_lock, progressLog, transportCalls, returned,
                   successful>>

NextParse == Parse

SpecParse == InitParse /\ [][NextParse]_vars

\* ------------------------------------------------------------------ prompt improvement
ErrPromptEmpty == "original prompt is empty"
ErrImproveApi == "API error"
ErrImproveUnexpected == "Unexpected error"

\* PromptImprovementResult(original_prompt=..., model_name=..., error=error)
ImprovementError(error) == PromptImprovementResult(<<>>, <<>>, error)

\* A handler list that holds `except APIError` only.
CatchesAPIErrorOnly(exc) == exc = "APIError"

\* `except APIError` followed by `except Exception`: every exception of the
\* try block is caught (APIError, KeyError, AttributeError and TypeError are
\* all subclasses of Exception).
Catches(exc) == exc \in {"APIError", "KeyError", "AttributeError", "TypeError"}

\* What the try block did with a parser outcome p: the parser's exception
\* propagates into the try block, its result is returned as it is.
AfterParse(kind, p) ==
    [NotImproved EXCEPT !.exc = p.raised, !.net = kind, !.posts = 1,
                        !.result = [p EXCEPT !.raised = "no"]]

\* The try block of improve_prompt_via_model: the key check, then
\* send_openrouter_request, then parse_improvement_response on result["text"].
ImproveTry(api_key, o, text) ==
    IF KeyMissing(api_key)
    THEN [NotImproved EXCEPT !.result = ImprovementError(ErrCredential)]
    ELSE IF AdapterException(o.kind) # "none"
    THEN [NotImproved EXCEPT !.exc = AdapterException(o.kind), !.net = o.kind, !.posts = 1]
    ELSE AfterParse(o.kind, parse_improvement_response(text))

\* The except clauses applied to what the try block did.
ImproveExcept(t) ==
    IF t.exc = "no" THEN t
    ELSE IF Catches(t.exc)
    THEN [t EXCEPT !.result = ImprovementError(IF t.exc = "APIError" THEN ErrImproveApi
                                               ELSE ErrImproveUnexpected)]
    ELSE [t EXCEPT !.raised = t.exc]

\* The value of `improvement` after the call: the blank check on the original
\* prompt comes before the try block.
ImproveOutcome(prompt, api_key, o, text) ==
    IF Blank(prompt)
    THEN [NotImproved EXCEPT !.done = TRUE, !.result = ImprovementError(ErrPromptEmpty)]
    ELSE [ImproveExcept(ImproveTry(api_key, o, text)) EXCEPT !.done = TRUE]

\* The model argument and the environment of a prompt improvement.
InitImprove ==
    /\ env \in {[OPENROUTER_API_KEY |-> v, OTHER_API_KEY |-> NoneStr] : v \in EnvValues}
    /\ \E a \in EnvNames : models = [isNone |-> FALSE, items |-> <<Model(1, a)>>]
    /\ callback = "none"
    /\ Entry
    /\ rawText = <<>>
    /\ parsed = NotParsed
    /\ ModelManager_init
    /\ NoRequestThread
    /\ original_prompt \in {<<>>, <<SP>>, <<"X">>}
    /\ improvement = NotImproved
    /\ caller = [t \in Callers |-> IdleCaller]
    /\ mutator = [pc |-> "idle", count |-> 0]
    /\ selected = [list |-> <<>>, before |-> <<>>, sent |-> 0]

\* A call of improve_prompt_via_model(model, original_prompt); rawText is the
\* text of the model's answer when the exchange succeeds.
improve_prompt_via_model ==
    /\ ~improvement.done
    /\ \E o \in TransportOutcomes :
       \E text \in (IF o.kind = "ok" THEN RawTexts ELSE {<<>>}) :
          /\ improvement' = ImproveOutcome(original_prompt,
                                           Model_get_api_key(env, models.items[1]), o, text)
          /\ rawText' = IF improvement'.posts = 1 THEN text ELSE rawText
    /\ UNCHANGED <<guiVars, regVars, original_prompt, caller, mutator, selected, parsed, env, models, callback, net, wire, mainpc, started,
                   joined, wpc, inExcept, response, results, results_lock, progressLog,
                   transportCalls, returned, successful>>

NextImprove == improve_prompt_via_model

SpecImprove == InitImprove /\ [][NextImprove]_vars

\* ------------------------------------------------------------------ registry: table
\* Largest number of rows of the models table.
MaxRows == 2
\* Model names in the order of ORDER BY name.
Names == <<"gpt", "llama">>
NameSet == {Names[i] : i \in 1..Len(Names)}
NameRank(name) == CHOOSE i \in 1..Len(Names) : Names[i] = name

\* dict(row) of the row with the given id.
RowDict(rows, id) ==
    [id |-> id, name |-> rows[id].name, api_id |-> rows[id].api_id,
     is_active |-> rows[id].is_active]

\* Row i comes before row k under ORDER BY name.
Before(rows, i, k) ==
    \/ NameRank(rows[i].name) < NameRank(rows[k].name)
    \/ rows[i].name = rows[k].name /\ i <= k

RECURSIVE OrderByName(_, _)
\* The rows with the given ids as dicts, ordered by name.
OrderByName(rows, ids) ==
    IF ids = {} THEN <<>>
    ELSE LET first == CHOOSE i \in ids : \A k \in ids : Before(rows, i, k) IN
         <<RowDict(rows, first)>> \o OrderByName(rows, ids \ {first})

\* AUTOINCREMENT never gives the id of a deleted row again: the row stays in
\* the sequence as a row without a name, which no query sees.
DeletedRow == [name |-> "", api_id |-> "", is_active |-> 0]
Live(rows) == {i \in DOMAIN rows : rows[i] # DeletedRow}

\* db.get_all_models()
db_get_all_models(rows) == OrderByName(rows, Live(rows))

\* db.get_active_models(): WHERE is_active = 1
db_get_active_models(rows) == OrderByName(rows, {i \in Live(rows) : rows[i].is_active = 1})

\* A table without the UNIQUE constraint on name.
NoConstraint(rows, name, self) == FALSE

\* `name TEXT NOT NULL UNIQUE`: another row holds the name.
NameTaken(rows, name, self) == \E i \in DOMAIN rows : i # self /\ rows[i].name = name

\* The values a caller can give for a row: the first name goes through the
\* gateway key, the others name another key.
ApiIdOf(name) == IF name = Names[1] THEN "OPENROUTER_API_KEY" ELSE "OTHER_API_KEY"
RowInputs == {[name |-> n, api_id |-> ApiIdOf(n), is_active |-> a] : n \in NameSet, a \in {0, 1}}

\* db.add_model: INSERT, or sqlite3.IntegrityError and a rollback.
add_model ==
    \E row \in RowInputs :
        /\ NameTaken(table, row.name, 0) \/ Len(table) < MaxRows
        /\ table' = IF NameTaken(table, row.name, 0) THEN table ELSE Append(table, row)
        /\ lastCall' = [NoCall EXCEPT !.op = "add_model", !.name = row.name,
                                      !.raised = IF NameTaken(table, row.name, 0)
                                                 THEN "IntegrityError" ELSE "no",
                                      !.tableKept = (table' = table)]
        /\ UNCHANGED <<models_cache, active_models_cache, stale, loads>>
        /\ UNCHANGED <<guiVars, otherVars, extVars>>

\* db.update_model: UPDATE ... WHERE id = ?, or sqlite3.IntegrityError and a
\* rollback; an unknown id updates no row.
update_model ==
    \E model_id \in 1..MaxRows, row \in RowInputs :
        /\ table' = IF model_id \in Live(table) /\ ~NameTaken(table, row.name, model_id)
                    THEN [table EXCEPT ![model_id] = row] ELSE table
        /\ lastCall' = [NoCall EXCEPT !.op = "update_model", !.name = row.name,
                                      !.raised = IF model_id \in Live(table)
                                                    /\ NameTaken(table, row.name, model_id)
                                                 THEN "IntegrityError" ELSE "no",
                                      !.tableKept = (table' = table)]
        /\ UNCHANGED <<models_cache, active_models_cache, stale, loads>>
        /\ UNCHANGED <<guiVars, otherVars, extVars>>

\* ------------------------------------------------------------------ registry: ModelManager
\* Model.__init__(model_data): is_active = bool(model_data["is_active"]).
Model_init(model_data) ==
    [id |-> model_data.id, name |-> model_data.name, api_id |-> model_data.api_id,
     is_active |-> model_data.is_active # 0]

\* [Model(model_data) for model_data in models_data]
ModelsOf(models_data) == [i \in 1..Len(models_data) |-> Model_init(models_data[i])]

\* A manager that reads the table on every call.
AlwaysRead(cache, force_reload) == TRUE

\* `if self._models_cache is None or force_reload:`
NeedsRead(cache, force_reload) == ~cache.some \/ force_reload

\* A manager that installs an empty snapshot when the read fails.
EmptyOnFailure(cache, force_reload, fails, snapshot) ==
    IF NeedsRead(cache, force_reload)
    THEN SomeList(IF fails THEN <<>> ELSE snapshot) ELSE cache

\* The cache after the `if` of load_models / get_active_models: a read that
\* fails raises before the assignment.
CacheAfter(cache, force_reload, fails, snapshot) ==
    IF NeedsRead(cache, force_reload) /\ ~fails THEN SomeList(snapshot) ELSE cache

\* An invalidation that leaves the cache in place.
Kept(cache) == cache

\* `self._models_cache = None`
Dropped(cache) == NoList

\* The exception that leaves a call whose read of the table fails.
RaisedBy(cache, force_reload, fails) ==
    IF NeedsRead(cache, force_reload) /\ fails THEN "sqlite3.Error" ELSE "no"

\* The record of a call of load_models / get_active_models / get_model_by_*.
LoadCall(op, which, cache, force_reload, fails, after, ret) ==
    [NoCall EXCEPT !.op = op, !.force = force_reload, !.cache = which, !.had = cache.some,
                   !.read = NeedsRead(cache, force_reload),
                   !.failed = (NeedsRead(cache, force_reload) /\ fails),
                   !.raised = RaisedBy(cache, force_reload, fails),
                   !.cacheKept = (after = cache),
                   !.retIsCache = (cache.some /\ ret = cache.list),
                   !.ret = IF RaisedBy(cache, force_reload, fails) = "no" THEN ret ELSE <<>>]

\* stale and loads after a call on the cache `which`.
StaleAfter(which, cache, force_reload, fails) ==
    IF NeedsRead(cache, force_reload) /\ ~fails THEN [stale EXCEPT ![which] = FALSE] ELSE stale
LoadsAfter(which, cache, force_reload, fails) ==
    IF NeedsRead(cache, force_reload) /\ ~fails /\ ~force_reload
    THEN [loads EXCEPT ![which] = @ + 1] ELSE loads

\* ModelManager.load_models(force_reload)
load_models ==
    \E force_reload \in BOOLEAN, fails \in BOOLEAN :
        /\ models_cache' = CacheAfter(models_cache, force_reload, fails,
                                      ModelsOf(db_get_all_models(table)))
        /\ lastCall' = LoadCall("load_models", "all", models_cache, force_reload, fails,
                                models_cache', models_cache'.list)
        /\ stale' = StaleAfter("all", models_cache, force_reload, fails)
        /\ loads' = LoadsAfter("all", models_cache, force_reload, fails)
        /\ UNCHANGED <<table, active_models_cache>>
        /\ UNCHANGED <<guiVars, otherVars, extVars>>

\* ModelManager.get_active_models(force_reload)
get_active_models ==
    \E force_reload \in BOOLEAN, fails \in BOOLEAN :
        /\ active_models_cache' = CacheAfter(active_models_cache, force_reload, fails,
                                             ModelsOf(db_get_active_models(table)))
        /\ lastCall' = LoadCall("get_active_models", "active", active_models_cache,
                                force_reload, fails, active_models_cache',
                                active_models_cache'.list)
        /\ stale' = StaleAfter("active", active_models_cache, force_reload, fails)
        /\ loads' = LoadsAfter("active", active_models_cache, force_reload, fails)
        /\ UNCHANGED <<table, models_cache>>
        /\ UNCHANGED <<guiVars, otherVars, extVars>>

\* `for model in models: if model.<field> == value: return model`, else None;
\* the result is a list of at most one model.
FirstWith(ms, field, value) ==
    IF \E i \in 1..Len(ms) : ms[i][field] = value
    THEN <<ms[CHOOSE i \in 1..Len(ms) :
                 ms[i][field] = value /\ \A k \in 1..(i - 1) : ms[k][field] # value]>>
    ELSE <<>>

\* ModelManager.get_model_by_id(model_id)
get_model_by_id ==
    \E model_id \in 1..MaxRows, fails \in BOOLEAN :
        /\ models_cache' = CacheAfter(models_cache, FALSE, fails,
                                      ModelsOf(db_get_all_models(table)))
        /\ lastCall' = LoadCall("get_model_by_id", "all", models_cache, FALSE, fails,
                                models_cache', FirstWith(models_cache'.list, "id", model_id))
        /\ stale' = StaleAfter("all", models_cache, FALSE, fails)
        /\ loads' = LoadsAfter("all", models_cache, FALSE, fails)
        /\ UNCHANGED <<table, active_models_cache>>
        /\ UNCHANGED <<guiVars, otherVars, extVars>>

\* ModelManager.get_model_by_name(name)
get_model_by_name ==
    \E name \in NameSet, fails \in BOOLEAN :
        /\ models_cache' = CacheAfter(models_cache, FALSE, fails,
                                      ModelsOf(db_get_all_models(table)))
        /\ lastCall' = LoadCall("get_model_by_name", "all", models_cache, FALSE, fails,
                                models_cache', FirstWith(models_cache'.list, "name", name))
        /\ stale' = StaleAfter("all", models_cache, FALSE, fails)
        /\ loads' = LoadsAfter("all", models_cache, FALSE, fails)
        /\ UNCHANGED <<table, active_models_cache>>
        /\ UNCHANGED <<guiVars, otherVars, extVars>>

\* ModelManager.invalidate_cache()
invalidate_cache ==
    /\ models_cache' = Dropped(models_cache)
    /\ active_models_cache' = Dropped(active_models_cache)
    /\ stale' = [all |-> TRUE, active |-> TRUE]
    /\ loads' = [all |-> 0, active |-> 0]
    /\ lastCall' = [NoCall EXCEPT !.op = "invalidate_cache"]
    /\ UNCHANGED table
    /\ UNCHANGED <<guiVars, otherVars, extVars>>

\* A key check that only looks for None.
KeyNotNone(api_key) == api_key.some
\* `has_key = api_key is not None and api_key.strip() != ""`
has_key(api_key) == api_key.some /\ strip(api_key.s) # <<>>

\* `{model.id: has_key for model in models}`
validation_result(ms, key_present) ==
    [id \in {ms[i].id : i \in 1..Len(ms)} |-> key_present]

\* The `models` argument of validate_api_keys: None, or a list the manager
\* returned before.
GivenLists ==
    {NoList} \cup (IF models_cache.some THEN {models_cache} ELSE {})
             \cup (IF active_models_cache.some THEN {active_models_cache} ELSE {})

\* ModelManager.validate_api_keys(models): None means get_active_models(); the
\* key checked is OPENROUTER_API_KEY for every model.
validate_api_keys ==
    \E given \in GivenLists, fails \in BOOLEAN :
        /\ active_models_cache' =
              IF given.some THEN active_models_cache
              ELSE CacheAfter(active_models_cache, FALSE, fails,
                              ModelsOf(db_get_active_models(table)))
        /\ lastCall' =
              IF given.some
              THEN [NoCall EXCEPT !.op = "validate_api_keys", !.ret = given.list,
                       !.validation = validation_result(given.list,
                                          has_key(get_api_key(env, "OPENROUTER_API_KEY")))]
              ELSE [LoadCall("validate_api_keys", "active", active_models_cache, FALSE, fails,
                             active_models_cache', active_models_cache'.list)
                       EXCEPT !.validation =
                           IF RaisedBy(active_models_cache, FALSE, fails) # "no" THEN <<>>
                           ELSE validation_result(active_models_cache'.list,
                                    has_key(get_api_key(env, "OPENROUTER_API_KEY")))]
        /\ stale' = IF given.some THEN stale
                    ELSE StaleAfter("active", active_models_cache, FALSE, fails)
        /\ loads' = IF given.some THEN loads
                    ELSE LoadsAfter("active", active_models_cache, FALSE, fails)
        /\ UNCHANGED <<table, models_cache>>
        /\ UNCHANGED <<guiVars, otherVars, extVars>>

\* ------------------------------------------------------------------ registry: specification
\* The environment of the registry runs: the gateway key and one other key.
InitRegistry ==
    /\ env \in {[OPENROUTER_API_KEY |-> v, OTHER_API_KEY |-> o] :
                   v \in {NoneStr, Some(<<"k", SP>>)}, o \in {NoneStr, Some(<<"k">>)}}
    /\ models = [isNone |-> FALSE, items |-> <<>>]
    /\ callback = "none"
    /\ Entry
    /\ rawText = <<>>
    /\ parsed = NotParsed
    /\ ModelManager_init
    /\ NoImprovement
    /\ NoRequestThread

NextRegistry ==
    \/ add_model
    \/ update_model
    \/ load_models
    \/ get_active_models
    \/ get_model_by_id
    \/ get_model_by_name
    \/ invalidate_cache
    \/ validate_api_keys

SpecRegistry == InitRegistry /\ [][NextRegistry]_vars

\* ------------------------------------------------------------------ registry: threads
\* The cache a call of the registry works on.
CacheOf(which) == IF which = "all" THEN models_cache ELSE active_models_cache

\* What db.get_all_models() / db.get_active_models() gives, as Model objects.
Snapshot(which, rows) ==
    ModelsOf(IF which = "all" THEN db_get_all_models(rows) ELSE db_get_active_models(rows))

\* Largest number of changes of the table in one run.
MaxMutations == 2

\* The seeded models table and a manager nobody has called yet.
InitRegistryThreads ==
    /\ env = [OPENROUTER_API_KEY |-> Some(<<"k">>), OTHER_API_KEY |-> NoneStr]
    /\ models = [isNone |-> FALSE, items |-> <<>>]
    /\ callback = "none"
    /\ Entry
    /\ rawText = <<>>
    /\ parsed = NotParsed
    /\ \E a \in {0, 1} :
          table = <<[name |-> Names[1], api_id |-> ApiIdOf(Names[1]), is_active |-> 1],
                    [name |-> Names[2], api_id |-> ApiIdOf(Names[2]), is_active |-> a]>>
    /\ models_cache = NoList
    /\ active_models_cache = NoList
    /\ stale = [all |-> FALSE, active |-> FALSE]
    /\ loads = [all |-> 0, active |-> 0]
    /\ lastCall = NoCall
    /\ NoImprovement
    /\ NoRequestThread

\* Entry of load_models() / get_active_models() in thread t, up to the test
\* `if self._models_cache is None`: a populated cache skips the read.
LoadCheck(t) ==
    /\ caller[t].pc = "idle"
    /\ \E which \in {"all", "active"} :
          caller' = [caller EXCEPT ![t] =
                        [IdleCaller EXCEPT !.which = which, !.epoch = mutator.count,
                                           !.pc = IF NeedsRead(CacheOf(which), FALSE)
                                                  THEN "read" ELSE "return"]]
    /\ UNCHANGED <<guiVars, otherVars, regVars, original_prompt, improvement, mutator, selected>>

\* `models_data = db.get_all_models()`: the thread holds what the table held.
LoadRead(t) ==
    /\ caller[t].pc = "read"
    /\ caller' = [caller EXCEPT ![t].pc = "assign",
                                ![t].local = Snapshot(caller[t].which, table)]
    /\ UNCHANGED <<guiVars, otherVars, regVars, original_prompt, improvement, mutator, selected>>

\* `self._models_cache = [Model(model_data) for model_data in models_data]`
LoadAssign(t) ==
    /\ caller[t].pc = "assign"
    /\ models_cache' = IF caller[t].which = "all" THEN SomeList(caller[t].local)
                       ELSE models_cache
    /\ active_models_cache' = IF caller[t].which = "active" THEN SomeList(caller[t].local)
                              ELSE active_models_cache
    /\ caller' = [caller EXCEPT ![t].pc = "log", ![t].local = <<>>]
    /\ UNCHANGED <<guiVars, otherVars, table, stale, loads, lastCall, original_prompt, improvement,
                   mutator, selected>>

\* `logger.info(f"... {len(self._models_cache)}")`: len(None) raises TypeError
\* when the cache was invalidated after the assignment.
LoadLog(t) ==
    /\ caller[t].pc = "log"
    /\ caller' = [caller EXCEPT ![t] =
                     IF CacheOf(caller[t].which).some THEN [@ EXCEPT !.pc = "return"]
                     ELSE [@ EXCEPT !.pc = "idle", !.returned = TRUE, !.raised = "TypeError"]]
    /\ UNCHANGED <<guiVars, otherVars, regVars, original_prompt, improvement, mutator, selected>>

\* `return self._models_cache`: the value the attribute holds now.
LoadReturn(t) ==
    /\ caller[t].pc = "return"
    /\ caller' = [caller EXCEPT ![t].pc = "idle", ![t].returned = TRUE,
                                ![t].ret = CacheOf(caller[t].which)]
    /\ UNCHANGED <<guiVars, otherVars, regVars, original_prompt, improvement, mutator, selected>>

\* db.update_model_status(model_id, is_active), the first statement of
\* ModelManagementDialog.on_active_changed.
StatusMutation ==
    /\ mutator.pc = "idle"
    /\ mutator.count < MaxMutations
    /\ \E model_id \in DOMAIN table, is_active \in {0, 1} :
          table' = [table EXCEPT ![model_id].is_active = is_active]
    /\ mutator' = [mutator EXCEPT !.pc = "invalidate"]
    /\ UNCHANGED <<guiVars, otherVars, models_cache, active_models_cache, stale, loads, lastCall,
                   original_prompt, improvement, caller, selected>>

\* invalidate_cache(), first assignment: `self._models_cache = None`.
InvalidateAll ==
    /\ mutator.pc = "invalidate"
    /\ models_cache' = Dropped(models_cache)
    /\ mutator' = [mutator EXCEPT !.pc = "invalidate_active"]
    /\ UNCHANGED <<guiVars, otherVars, table, active_models_cache, stale, loads, lastCall,
                   original_prompt, improvement, caller, selected>>

\* invalidate_cache(), second assignment: `self._active_models_cache = None`.
InvalidateActive ==
    /\ mutator.pc = "invalidate_active"
    /\ active_models_cache' = Dropped(active_models_cache)
    /\ mutator' = [pc |-> "idle", count |-> mutator.count + 1]
    /\ UNCHANGED <<guiVars, otherVars, table, models_cache, stale, loads, lastCall,
                   original_prompt, improvement, caller, selected>>

LoadCheckStep == \E t \in Callers : LoadCheck(t)
LoadReadStep == \E t \in Callers : LoadRead(t)
LoadAssignStep == \E t \in Callers : LoadAssign(t)
LoadLogStep == \E t \in Callers : LoadLog(t)
LoadReturnStep == \E t \in Callers : LoadReturn(t)

NextRegistryThreads ==
    \/ LoadCheckStep
    \/ LoadReadStep
    \/ LoadAssignStep
    \/ LoadLogStep
    \/ LoadReturnStep
    \/ StatusMutation
    \/ InvalidateAll
    \/ InvalidateActive

SpecRegistryThreads == InitRegistryThreads /\ [][NextRegistryThreads]_vars

\* ------------------------------------------------------------------ management surface
\* A handler that never calls invalidate_cache().
NotInvalidated(ok, cache) == cache

\* `self.model_manager.invalidate_cache()` is the statement after the db call
\* in the try block: it runs when the db call did not raise (and, for a
\* deletion, reported a deleted row).
Invalidated(ok, cache) == IF ok THEN Dropped(cache) ELSE cache

\* ModelManagementDialog.load_models(): load_models(force_reload=True).
ReloadedAll(rows) == SomeList(Snapshot("all", rows))

\* The record of a handler of the management dialog.
Handled(op, raised, rowsAfter) ==
    [NoCall EXCEPT !.op = op, !.raised = raised, !.tableKept = (rowsAfter = table)]

\* ModelManagementDialog.on_active_changed(model_id, state): the status
\* update, then the invalidation; a failing update is rolled back and the
\* handler reloads the dialog's list.
on_active_changed ==
    \E model_id \in 1..MaxRows, is_active \in {0, 1}, fails \in BOOLEAN :
        /\ table' = IF ~fails /\ model_id \in Live(table)
                    THEN [table EXCEPT ![model_id].is_active = is_active] ELSE table
        /\ models_cache' = IF fails THEN ReloadedAll(table)
                           ELSE Invalidated(TRUE, models_cache)
        /\ active_models_cache' = Invalidated(~fails, active_models_cache)
        /\ lastCall' = Handled("on_active_changed", IF fails THEN "sqlite3.Error" ELSE "no",
                               table')
        /\ UNCHANGED <<guiVars, stale, loads, otherVars, extVars>>

\* ModelManagementDialog.add_model(): db.add_model, invalidate_cache, reload;
\* sqlite3.IntegrityError skips both.
dialog_add_model ==
    \E row \in RowInputs :
        /\ NameTaken(table, row.name, 0) \/ Len(table) < MaxRows
        /\ table' = IF NameTaken(table, row.name, 0) THEN table ELSE Append(table, row)
        /\ models_cache' = IF NameTaken(table, row.name, 0) THEN models_cache
                           ELSE ReloadedAll(table')
        /\ active_models_cache' =
              Invalidated(~NameTaken(table, row.name, 0), active_models_cache)
        /\ lastCall' = Handled("add_model",
                               IF NameTaken(table, row.name, 0) THEN "IntegrityError"
                               ELSE "no", table')
        /\ UNCHANGED <<guiVars, stale, loads, otherVars, extVars>>

\* The model the dialog finds for the selected id: get_model_by_id on the
\* cache that load_models() leaves.
Found(cache, model_id) == FirstWith(cache.list, "id", model_id) # <<>>

\* edit_model reaches invalidate_cache(): the model was found and
\* db.update_model did not raise.
EditDone(model_id, row) ==
    /\ Found(CacheAfter(models_cache, FALSE, FALSE, Snapshot("all", table)), model_id)
    /\ ~(model_id \in Live(table) /\ NameTaken(table, row.name, model_id))

\* ModelManagementDialog.edit_model(): get_model_by_id, then db.update_model,
\* invalidate_cache and reload; sqlite3.IntegrityError skips the last two.
dialog_edit_model ==
    \E model_id \in 1..MaxRows, row \in RowInputs :
        /\ table' = IF EditDone(model_id, row) /\ model_id \in Live(table)
                    THEN [table EXCEPT ![model_id] = row] ELSE table
        /\ models_cache' =
              IF EditDone(model_id, row) THEN ReloadedAll(table')
              ELSE CacheAfter(models_cache, FALSE, FALSE, Snapshot("all", table))
        /\ active_models_cache' = Invalidated(EditDone(model_id, row), active_models_cache)
        /\ lastCall' = Handled("edit_model",
                               IF model_id \in Live(table) /\ NameTaken(table, row.name, model_id)
                               THEN "IntegrityError" ELSE "no", table')
        /\ UNCHANGED <<guiVars, stale, loads, otherVars, extVars>>

\* db.delete_model returned True: the model was found, no result refers to
\* it and its row was there.
Deleted(model_id, has_results) ==
    /\ Found(CacheAfter(models_cache, FALSE, FALSE, Snapshot("all", table)), model_id)
    /\ model_id \in Live(table)
    /\ ~has_results

\* ModelManagementDialog.delete_model(): get_model_by_id, then db.delete_model,
\* which deletes nothing when results refer to the model; invalidate_cache and
\* the reload run `if deleted`.
dialog_delete_model ==
    \E model_id \in 1..MaxRows, has_results \in BOOLEAN :
        /\ table' = IF Deleted(model_id, has_results)
                    THEN [table EXCEPT ![model_id] = DeletedRow] ELSE table
        /\ models_cache' =
              IF Deleted(model_id, has_results) THEN ReloadedAll(table')
              ELSE CacheAfter(models_cache, FALSE, FALSE, Snapshot("all", table))
        /\ active_models_cache' =
              Invalidated(Deleted(model_id, has_results), active_models_cache)
        /\ lastCall' = Handled("delete_model", "no", table')
        /\ UNCHANGED <<guiVars, stale, loads, otherVars, extVars>>

\* The dialog's refresh button: ModelManagementDialog.load_models().
dialog_load_models ==
    /\ models_cache' = ReloadedAll(table)
    /\ lastCall' = Handled("dialog_load_models", "no", table)
    /\ UNCHANGED <<guiVars, table, active_models_cache, stale, loads, otherVars, extVars>>

\* MainWindow.manage_models(): the dialog was closed with accept().
manage_models ==
    /\ models_cache' = Dropped(models_cache)
    /\ active_models_cache' = Dropped(active_models_cache)
    /\ lastCall' = Handled("manage_models", "no", table)
    /\ UNCHANGED <<guiVars, table, stale, loads, otherVars, extVars>>

\* MainWindow.send_request(): selected_models = get_active_models(), the list
\* handed to the RequestThread.
send_request ==
    /\ active_models_cache' =
          CacheAfter(active_models_cache, FALSE, FALSE, Snapshot("active", table))
    /\ selected' = [list |-> active_models_cache'.list, before |-> selected.list, sent |-> 1]
    /\ lastCall' = Handled("send_request", "no", table)
    /\ UNCHANGED <<guiVars, table, models_cache, stale, loads, otherVars, original_prompt, improvement,
                   caller, mutator>>

\* The application starts on a table with one active model.
InitManage ==
    /\ env = [OPENROUTER_API_KEY |-> Some(<<"k">>), OTHER_API_KEY |-> NoneStr]
    /\ models = [isNone |-> FALSE, items |-> <<>>]
    /\ callback = "none"
    /\ Entry
    /\ rawText = <<>>
    /\ parsed = NotParsed
    /\ table = <<[name |-> Names[1], api_id |-> ApiIdOf(Names[1]), is_active |-> 1]>>
    /\ models_cache = NoList
    /\ active_models_cache = NoList
    /\ stale = [all |-> FALSE, active |-> FALSE]
    /\ loads = [all |-> 0, active |-> 0]
    /\ lastCall = NoCall
    /\ NoImprovement
    /\ NoRequestThread

NextManage ==
    \/ on_active_changed
    \/ dialog_add_model
    \/ dialog_edit_model
    \/ dialog_delete_model
    \/ dialog_load_models
    \/ manage_models
    \/ send_request

SpecManage == InitManage /\ [][NextManage]_vars

\* ------------------------------------------------------------------ request thread and cancel
\* send_request has started a RequestThread on a non-empty batch whose
\* credential validation passed; its progress callback emits a signal.
InitCancel ==
    /\ env = [OPENROUTER_API_KEY |-> Some(<<"k">>), OTHER_API_KEY |-> NoneStr]
    /\ \E n \in 1..MaxTargets :
         models = [isNone |-> FALSE, items |-> [i \in 1..n |-> Model(i, "OPENROUTER_API_KEY")]]
    /\ callback = "returns"
    /\ Entry
    /\ rawText = <<>>
    /\ parsed = NotParsed
    /\ ModelManager_init
    /\ NoImprovement
    /\ gui = Sending
    /\ posted = <<>>

\* QThread.isRunning(): run() has not returned and the thread was not killed.
isRunning == mainpc \notin {"ended", "killed"}

\* RequestThread.run: self.finished.emit(results). The receiver lives in the
\* GUI thread, so the call of the slot is queued in its event loop.
RequestThread_emit ==
    /\ mainpc = "returned"
    /\ posted' = Append(posted, [signal |-> "finished", results |-> returned.list])
    /\ mainpc' = "emitted"
    /\ UNCHANGED <<gui, extVars, regVars, rawText, parsed, env, models, callback, net, wire, started,
                   joined, wpc, inExcept, response, results, results_lock, progressLog,
                   transportCalls, returned, successful>>

\* RequestThread.run returns.
RequestThread_exit ==
    /\ mainpc = "emitted"
    /\ mainpc' = "ended"
    /\ UNCHANGED <<guiVars, extVars, regVars, rawText, parsed, env, models, callback, net, wire,
                   started, joined, wpc, inExcept, response, results, results_lock, progressLog,
                   transportCalls, returned, successful>>

\* MainWindow.cancel_request, the slot of the cancel button: terminate() and
\* wait(5000) on a running thread, which ends the thread or leaves it running
\* (the second isRunning() of the handler); the worker threads of
\* send_prompts_parallel are not touched. The finally block re-enables sending.
cancel_request ==
    /\ gui.cancel_btn
    /\ \/ /\ isRunning
          /\ mainpc' \in {"killed", mainpc}
       \/ /\ ~isRunning
          /\ UNCHANGED mainpc
    /\ gui' = [gui EXCEPT !.send_btn = TRUE, !.cancel_btn = FALSE, !.cancelled = TRUE]
    /\ UNCHANGED <<posted, extVars, regVars, rawText, parsed, env, models, callback, net, wire,
                   started, joined, wpc, inExcept, response, results, results_lock, progressLog,
                   transportCalls, returned, successful>>

\* The event loop delivers the queued signal: MainWindow.on_request_finished(results).
deliver_finished ==
    /\ posted # <<>>
    /\ posted' = Tail(posted)
    /\ gui' = [gui EXCEPT !.send_btn = TRUE, !.cancel_btn = FALSE,
                           !.temp_results = SomeList(Head(posted).results)]
    /\ successful' = CountSuccess(Head(posted).results)
    /\ UNCHANGED <<extVars, regVars, rawText, parsed, env, models, callback, net, wire, mainpc,
                   started, joined, wpc, inExcept, response, results, results_lock, progressLog,
                   transportCalls, returned>>

NextCancel ==
    \/ Call
    \/ StartThread
    \/ JoinThread
    \/ Return
    \/ SendStep
    \/ AcquireStep
    \/ AppendStep
    \/ CallbackReturnsStep
    \/ RequestThread_emit
    \/ RequestThread_exit
    \/ cancel_request
    \/ deliver_finished

SpecCancel == InitCancel /\ [][NextCancel]_vars

\* ------------------------------------------------------------------ validation and dispatch
\* A batch with any credential references, under every value of the gateway
\* variable; the other variable is set.
InitAgree ==
    /\ env \in {[OPENROUTER_API_KEY |-> v, OTHER_API_KEY |-> Some(<<"o">>)] : v \in EnvValues}
    /\ \E n \in 1..MaxTargets :
         \E ids \in [1..n -> EnvNames] :
           models = [isNone |-> FALSE, items |-> [i \in 1..n |-> Model(i, ids[i])]]
    /\ callback = "none"
    /\ Entry
    /\ rawText = <<>>
    /\ parsed = NotParsed
    /\ ModelManager_init
    /\ NoImprovement
    /\ NoRequestThread

\* ModelManager.validate_api_keys(models) on the list that is dispatched, as
\* MainWindow.send_request calls it: one key check, the same answer for every id.
validate_targets ==
    /\ lastCall.op = "none"
    /\ lastCall' = [NoCall EXCEPT !.op = "validate_api_keys", !.ret = models.items,
                       !.validation = validation_result(models.items,
                                          has_key(get_api_key(env, "OPENROUTER_API_KEY")))]
    /\ UNCHANGED <<guiVars, otherVars, extVars, table, models_cache, active_models_cache,
                   stale, loads>>

NextAgree ==
    \/ validate_targets
    \/ Call
    \/ StartThread
    \/ JoinThread
    \/ Return
    \/ SendStep
    \/ AcquireStep
    \/ AppendStep
    \/ NoCallbackStep

SpecAgree == InitAgree /\ [][NextAgree]_vars

\* ------------------------------------------------------------------ claims
InputIds == {IdOf(w) : w \in Workers}
\* Positions of the outcomes of target w in a list of outcomes.
OutcomesOf(rs, w) == {i \in 1..Len(rs) : rs[i].model_id = IdOf(w)}
\* The raw value of the gateway credential is absent, empty or whitespace only.
CredentialBlank ==
    \/ ~env["OPENROUTER_API_KEY"].some
    \/ \A i \in 1..Len(env["OPENROUTER_API_KEY"].s) : IsSpace(env["OPENROUTER_API_KEY"].s[i])

\* C1: send_prompts_parallel returns exactly N outcomes, every outcome's id is
\* an input id, every input id has exactly one outcome; for N = 0 the list is
\* empty and no request was sent.
C1_ExactlyOneOutcomePerTarget ==
    returned.done =>
        /\ Len(returned.list) = N
        /\ \A i \in 1..Len(returned.list) : returned.list[i].model_id \in InputIds
        /\ \A w \in Workers : Cardinality(OutcomesOf(returned.list, w)) = 1
        /\ (N = 0 => returned.list = <<>> /\ \A w \in DOMAIN transportCalls : transportCalls[w] = 0)

\* C2: for a batch of N targets with a progress callback, the callback is
\* called exactly N times, the k-th call has completed = k and total = N, and
\* the last call has completed = total = N.
C2_ProgressOneToN ==
    /\ callback # "none" =>
          \A k \in 1..Len(progressLog) :
              /\ progressLog[k].completed = k
              /\ progressLog[k].total = N
              /\ k <= N
    /\ returned.done /\ callback # "none" => Len(progressLog) = N

\* C3: when the resolved credential is absent or blank, the outcome that
\* send_prompt_to_model returns for a target is the credential-missing error
\* with empty text and elapsed time 0, and no request was sent for the target.
C3_BlankCredentialNoTransport ==
    \A w \in Workers :
        CredentialBlank /\ wpc[w] \notin {"idle", "send"} =>
            /\ response[w].error = ErrCredential
            /\ response[w].response_text = ""
            /\ response[w].response_time = ZeroTime
            /\ response[w].model_id = IdOf(w)
            /\ ~response[w].success
            /\ transportCalls[w] = 0
            /\ net[w] = "none"

C3_Witness ==
    /\ env["OPENROUTER_API_KEY"] = Some(<<SP>>)
    /\ returned.done
    /\ N = MaxTargets
    /\ \A w \in Workers : \E i \in 1..Len(returned.list) : returned.list[i] = response[w]

AdapterErrors == {ErrApiTimeout, ErrApiStatus, ErrUnexpected}
ErrorOfNet(kind) ==
    CASE kind = "timeout" -> ErrApiTimeout
      [] kind = "http_status" -> ErrApiStatus
      [] kind = "malformed" -> ErrUnexpected
      [] OTHER -> NoError

\* C4: a failure of one target's adapter call becomes a failed outcome of that
\* target only; every sibling still contributes its own outcome (a sibling whose
\* request succeeded contributes a successful one), and send_prompts_parallel
\* raises only for a None target list.
C4_FailureIsolated ==
    /\ mainpc = "raised" => models.isNone
    /\ ~models.isNone /\ ~(ENABLED Next) => returned.done
    /\ returned.done =>
          /\ \A w \in Workers :
                \E i \in OutcomesOf(returned.list, w) :
                    /\ returned.list[i].error =
                          (IF net[w] = "none" THEN ErrCredential ELSE ErrorOfNet(net[w]))
                    /\ returned.list[i].success = (net[w] = "ok")
                    /\ net[w] = "ok" => returned.list[i].response_text = "ok"
          /\ \A i \in 1..Len(returned.list) :
                returned.list[i].error \in AdapterErrors =>
                    \E w \in Workers : /\ returned.list[i].model_id = IdOf(w)
                                       /\ returned.list[i].error = ErrorOfNet(net[w])

C4_Witness ==
    /\ returned.done
    /\ N = MaxTargets
    /\ net[1] = "malformed"
    /\ net[2] = "ok"
    /\ \E i \in 1..Len(returned.list) : returned.list[i].success

\* C5: send_prompts_parallel returns only after every worker has terminated and
\* appended its outcome, and nothing of the list reaches the caller earlier.
C5_ReturnAfterAllWorkers ==
    /\ returned.done =>
          /\ \A w \in Workers : wpc[w] \in {"done", "died"}
          /\ \A w \in Workers : OutcomesOf(returned.list, w) # {}
          /\ returned.list = results
          /\ results_lock = 0
    /\ ~returned.done => returned.list = <<>> /\ successful = -1

C5_Witness ==
    /\ returned.done
    /\ N = MaxTargets
    /\ callback = "returns"

\* C6: the returned list is in completion order: its k-th outcome is the one
\* appended by the worker that made the k-th progress call, whatever the
\* interleaving; the order need not be the input order.
C6_CompletionOrder ==
    callback # "none" =>
        /\ Len(progressLog) <= Len(results)
        /\ Len(results) <= Len(progressLog) + 1
        /\ \A k \in 1..Len(progressLog) : results[k].model_id = progressLog[k].by
        /\ returned.done =>
              /\ Len(returned.list) = Len(progressLog)
              /\ \A k \in 1..Len(progressLog) : returned.list[k].model_id = progressLog[k].by

\* A batch returned with the outcome of the second target first.
C6_Witness ==
    /\ returned.done
    /\ callback # "none"
    /\ N >= 2
    /\ returned.list[1].model_id = IdOf(2)
    /\ progressLog[1].by = IdOf(2)

InCritical(w) == wpc[w] \in {"append", "cb"}

\* C7: appends to the shared list and progress calls are serialized: at most
\* one worker is between acquiring and releasing results_lock, and it is the
\* holder of the lock.
C7_ProgressSerialized ==
    /\ \A v, w \in Workers : InCritical(v) /\ InCritical(w) => v = w
    /\ \A w \in Workers : InCritical(w) => results_lock = w

\* One worker is inside the callback while another waits for the lock.
C7_Witness ==
    /\ callback # "none"
    /\ \E v, w \in Workers : v # w /\ wpc[v] = "cb" /\ wpc[w] = "lock"

\* C8: with A's credential absent, B's request timed out and C's request
\* answered "ok" with 12 tokens, the batch returns 3 outcomes, failed for A and
\* B and successful for C, and the caller counts 1 success.
C8_ScenarioCountsOne ==
    /\ successful # -1
    /\ N = 3
    /\ ~Truthy(env[models.items[1].api_id])
    /\ net[2] = "timeout"
    /\ net[3] = "ok"
    =>
    /\ Len(returned.list) = 3
    /\ \A i \in OutcomesOf(returned.list, 1) : ~returned.list[i].success
    /\ \A i \in OutcomesOf(returned.list, 2) : ~returned.list[i].success
    /\ \A i \in OutcomesOf(returned.list, 3) :
          /\ returned.list[i].success
          /\ returned.list[i].response_text = "ok"
          /\ returned.list[i].tokens_used = 12
    /\ successful = 1

\* C9: success is derived from error: every outcome of a batch, and every
\* result returned by parse_improvement_response, has success = TRUE exactly
\* when its error is absent.
C9_SuccessIffNoError ==
    /\ \A i \in 1..Len(results) : results[i].success <=> (results[i].error = NoError)
    /\ \A i \in 1..Len(returned.list) :
          returned.list[i].success <=> (returned.list[i].error = NoError)
    /\ parsed.done /\ parsed.result.raised = "no" =>
          (parsed.result.success <=> (parsed.result.error = NoError))

\* The raw text holds a well-formed JSON object whose "improved" is a non-empty
\* string and whose "alternatives", when present, is a list of strings.
JsonPrimaryCase ==
    LET jm == json_search(rawText)
        data == json_loads(jm.group0)
        improved == dict_get(data, <<"improved">>, JStr(<<>>))
        alts == dict_get(data, <<"alternative", "s">>, JList(<<>>)) IN
    /\ jm.found
    /\ data.ok
    /\ improved.t = "str" /\ strip(improved.s) # <<>>
    /\ alts.t = "list" /\ ElementsAreStr(alts)
    /\ \A k \in VersionKeys : dict_get(data, k, JStr(<<>>)).t = "str"

\* C10: with a well-formed embedded JSON object and a non-empty primary field,
\* the result's primary is that field and its alternatives are the first at most
\* 3 non-empty trimmed entries of the decoded array, in order.
C10_JsonPrimaryAndThreeAlternatives ==
    parsed.done /\ parsed.result.raised = "no" /\ JsonPrimaryCase =>
        LET data == json_loads(json_search(rawText).group0)
            alts == StripNonEmpty(Elements(dict_get(data, <<"alternative", "s">>, JList(<<>>)))) IN
        /\ parsed.result.improved_prompt =
              strip(dict_get(data, <<"improved">>, JStr(<<>>)).s)
        /\ parsed.result.alternatives =
              SubSeq(alts, 1, IF Len(alts) < 3 THEN Len(alts) ELSE 3)

\* C11: parse_improvement_response never raises: whatever the raw text, a
\* result object is returned.
C11_ParseNeverRaises == parsed.done => parsed.result.raised = "no"

\* C12: for empty or whitespace-only raw text the result has the empty-response
\* error, an empty primary, no alternatives and no adapted versions.
C12_BlankTextIsError ==
    parsed.done /\ (\A i \in 1..Len(rawText) : IsSpace(rawText[i])) =>
        /\ parsed.result.raised = "no"
        /\ parsed.result.error = ErrEmptyResponse
        /\ parsed.result.improved_prompt = <<>>
        /\ parsed.result.alternatives = <<>>
        /\ parsed.result.code_version = NoneStr
        /\ parsed.result.analysis_version = NoneStr
        /\ parsed.result.creative_version = NoneStr

\* A whitespace-only text of more than one character has been parsed.
C12_Witness ==
    /\ parsed.done
    /\ Len(rawText) >= 2
    /\ \A i \in 1..Len(rawText) : IsSpace(rawText[i])
    /\ parsed.result.error = ErrEmptyResponse

\* C13: without embedded JSON and without a marker of the improved version the
\* primary is the first 5 non-empty trimmed lines joined by newlines and the
\* error is unset; and every returned result for a text with a non-blank line
\* has a non-empty primary and no error.
C13_FallbackFirstFiveLines ==
    parsed.done /\ parsed.result.raised = "no"
        /\ (\E i \in 1..Len(rawText) : ~IsSpace(rawText[i])) =>
        /\ parsed.result.improved_prompt # <<>>
        /\ parsed.result.error = NoError
        /\ ~json_search(rawText).found /\ ~improved_match(rawText).found =>
              parsed.result.improved_prompt = join(Take(StripNonEmpty(split(rawText, NL)), 5))

\* A text of more than 5 non-empty lines, without JSON and markers, has been
\* parsed by the fallback.
C13_Witness ==
    /\ parsed.done
    /\ ~json_search(rawText).found /\ ~improved_match(rawText).found
    /\ Len(StripNonEmpty(split(rawText, NL))) > 5
    /\ Len(StripNonEmpty(split(parsed.result.improved_prompt, NL))) = 5

\* Position of the first marker of the improved version, 0 when there is none.
FirstMarker ==
    LET ms == {i \in 1..Len(rawText) : rawText[i] \in {"improved", "Improved"}} IN
    IF ms = {} THEN 0 ELSE CHOOSE i \in ms : \A k \in ms : i <= k

\* Position of the first blank line (two newlines) after the first marker, 0
\* when there is none.
BlankLineAfterMarker ==
    LET es == {e \in (FirstMarker + 1)..Len(rawText) :
                  rawText[e] = NL /\ At(rawText, e + 1) = NL} IN
    IF FirstMarker = 0 \/ es = {} THEN 0 ELSE CHOOSE e \in es : \A k \in es : e <= k

\* The rest of the marker line, after the marker and its optional ":" or "-".
MarkerLineBody ==
    SubSeq(rawText, IF At(rawText, FirstMarker + 1) \in {":", "-"} THEN FirstMarker + 2
                    ELSE FirstMarker + 1, BlankLineAfterMarker - 1)

\* The raw text has no embedded JSON and a marker line with a non-blank rest
\* that is followed by a blank line.
MarkerLineCase ==
    /\ ~json_search(rawText).found
    /\ BlankLineAfterMarker # 0
    /\ \A i \in 1..Len(MarkerLineBody) : MarkerLineBody[i] # NL
    /\ strip(MarkerLineBody) # <<>>

\* C14: without embedded JSON, a marker line of the improved version (in any
\* case) followed by a blank line gives as primary exactly the trimmed text
\* between the marker and the blank line.
C14_MarkerThenBlankLine ==
    parsed.done /\ MarkerLineCase =>
        /\ parsed.result.raised = "no"
        /\ parsed.result.improved_prompt = strip(MarkerLineBody)

\* A marker line in capitalised form, followed by a blank line and another
\* section, has been parsed.
C14_Witness ==
    /\ parsed.done
    /\ MarkerLineCase
    /\ rawText[FirstMarker] = "Improved"
    /\ BlankLineAfterMarker + 1 < Len(rawText)
    /\ parsed.result.improved_prompt = strip(MarkerLineBody)

\* The calls that return models from a cache of the registry.
ListOps == {"load_models", "get_active_models"}

\* C15: a call that returns after an invalidation never returns a snapshot that
\* was read from the table before that invalidation.
C15_NoSnapshotFromBeforeInvalidation ==
    lastCall.cache # "none" /\ lastCall.raised = "no" => ~stale[lastCall.cache]

\* After an invalidation load_models has reloaded a non-empty snapshot, while
\* the active-only cache has not been reloaded yet.
C15_Witness ==
    /\ lastCall.op = "load_models"
    /\ ~lastCall.force /\ lastCall.read /\ lastCall.raised = "no"
    /\ lastCall.ret # <<>>
    /\ stale.active /\ ~stale.all

\* C16: an unforced list call reads the table only when its cache is empty;
\* on a populated cache it reads nothing and returns the cached snapshot, and
\* each cache is loaded at most once between two invalidations by unforced calls.
C16_CachedListReadsOnce ==
    /\ loads.all <= 1 /\ loads.active <= 1
    /\ lastCall.op \in ListOps /\ ~lastCall.force =>
          /\ lastCall.read <=> ~lastCall.had
          /\ lastCall.had =>
                lastCall.raised = "no" /\ lastCall.retIsCache /\ lastCall.cacheKept

\* An unforced load_models returned the cached snapshot although the table
\* holds something else by now.
C16_Witness ==
    /\ lastCall.op = "load_models"
    /\ ~lastCall.force /\ lastCall.had /\ ~lastCall.read
    /\ lastCall.ret = models_cache.list
    /\ lastCall.ret # ModelsOf(db_get_all_models(table))

\* C17: validate_api_keys maps each given model to TRUE exactly when the
\* credential reference of that model (its api_id) resolves to a present,
\* non-blank value.
C17_ValidationPerCredentialReference ==
    lastCall.op = "validate_api_keys" /\ lastCall.raised = "no" =>
        \A i \in 1..Len(lastCall.ret) :
            lastCall.validation[lastCall.ret[i].id]
                <=> Truthy(get_api_key(env, lastCall.ret[i].api_id))

\* C18: names are unique in the table, and an add or update that raises the
\* integrity error asked for a name another row holds and left the table as it
\* was.
C18_NamesUnique ==
    /\ \A i, k \in DOMAIN table : i # k => table[i].name # table[k].name
    /\ lastCall.raised = "IntegrityError" =>
          /\ lastCall.tableKept
          /\ \E i \in DOMAIN table : table[i].name = lastCall.name

\* A rename to the name of the other row has been refused.
C18_Witness ==
    /\ lastCall.op = "update_model"
    /\ lastCall.raised = "IntegrityError"
    /\ lastCall.tableKept
    /\ Len(table) = 2

\* C19: a failing read of the table leaves the call as an exception and
\* installs nothing: the cache is what it was, an empty cache stays empty, and
\* a call on an empty cache always attempts the read.
C19_ReloadFailurePropagates ==
    /\ lastCall.failed =>
          /\ lastCall.raised = "sqlite3.Error"
          /\ lastCall.cacheKept
          /\ ~lastCall.had => ~CacheOf(lastCall.cache).some
    /\ lastCall.cache # "none" /\ ~lastCall.had => lastCall.read

\* A reload of a non-empty table has failed on an empty cache.
C19_Witness ==
    /\ lastCall.failed
    /\ ~lastCall.had
    /\ table # <<>>
    /\ ~CacheOf(lastCall.cache).some

\* C20: the adapter reports a network failure, a non-2xx status and a body
\* without choices[0].message.content as three different kinds of failure, and
\* the outcomes of two exchanges that failed in different ways carry different
\* errors.
C20_ThreeFailureKinds ==
    \A w1, w2 \in Workers :
        /\ net[w1] \in {"timeout", "http_status", "malformed"}
        /\ net[w2] \in {"timeout", "http_status", "malformed"}
        /\ net[w1] # net[w2]
        => /\ AdapterException(net[w1]) # AdapterException(net[w2])
           /\ response[w1].error # response[w2].error

\* C21: improve_prompt_via_model never raises; a blank original prompt, a
\* missing credential, a failed exchange and a parser exception each give a
\* result with its error set, and a blank original prompt or a missing
\* credential sends no request.
C21_ImproveNeverRaises ==
    improvement.done =>
        /\ improvement.raised = "no"
        /\ (\/ Blank(original_prompt)
            \/ KeyMissing(Model_get_api_key(env, models.items[1]))
            \/ improvement.net \in {"timeout", "http_status", "malformed"}
            \/ improvement.exc # "no") => improvement.result.error # NoError
        /\ (\/ Blank(original_prompt)
            \/ KeyMissing(Model_get_api_key(env, models.items[1]))) => improvement.posts = 0

\* The parser raised AttributeError on the answer of a successful exchange and
\* the call returned an error result.
C21_Witness ==
    /\ improvement.done
    /\ improvement.net = "ok"
    /\ improvement.exc = "AttributeError"
    /\ improvement.raised = "no"
    /\ improvement.result.error = ErrImproveUnexpected

\* C22: with list calls running concurrently with a change of the table that
\* is followed by an invalidation, a call that starts after the invalidation
\* has completed, and ends with no other change in between, returns what the
\* table holds, never a snapshot read before the change.
C22_NoStaleInstallAfterInvalidation ==
    \A t \in Callers :
        (/\ caller[t].returned
         /\ caller[t].ret.some
         /\ caller[t].epoch = mutator.count
         /\ mutator.pc = "idle") => caller[t].ret.list = Snapshot(caller[t].which, table)

\* The handlers of the management dialog that change the table.
ManageOps == {"on_active_changed", "add_model", "edit_model", "delete_model"}

\* Ids of the models of a list.
IdsOf(ms) == {ms[i].id : i \in 1..Len(ms)}

\* C23: a handler of the management dialog that changed the table has
\* invalidated the active-only cache when it returns, and the list of active
\* models that send_request dispatches to is what the table holds: a
\* deactivated model is not in it, an activated one is.
C23_DispatchReflectsManagement ==
    /\ lastCall.op \in ManageOps /\ ~lastCall.tableKept => ~active_models_cache.some
    /\ active_models_cache.some => active_models_cache.list = Snapshot("active", table)
    /\ lastCall.op = "send_request" =>
          /\ selected.list = Snapshot("active", table)
          /\ \A i \in Live(table) : (table[i].is_active = 1) <=> (i \in IdsOf(selected.list))

\* A model that the previous send_request dispatched to has been deactivated
\* since, and this send_request does not dispatch to it.
C23_Witness ==
    /\ lastCall.op = "send_request"
    /\ \E i \in Live(table) :
          /\ table[i].is_active = 0
          /\ i \in IdsOf(selected.before)
          /\ i \notin IdsOf(selected.list)

\* A block of text with a list item that starts at the beginning of a line.
HasListItems(block) == \E i \in 1..Len(block) : ItemBreakAt(block, i)

\* The block that a match of alternatives_patterns isolated.
BlockOf(m) == IF m.found THEN strip(m.group1) ELSE <<>>

\* The text parsing isolated an alternatives block with list items: no
\* embedded JSON, and one of alternatives_patterns matches.
AlternativesBlockCase ==
    /\ parsed.done
    /\ parsed.result.raised = "no"
    /\ ~json_search(rawText).found
    /\ HasListItems(BlockOf(alternatives_match(rawText)))

\* C24: the alternatives taken from an isolated block are at most 3, non-empty
\* and trimmed, and none of them starts with a list marker (the list markers
\* delimit the items and are not part of them).
C24_AlternativesAreListItems ==
    AlternativesBlockCase =>
        /\ Len(parsed.result.alternatives) <= 3
        /\ \A i \in 1..Len(parsed.result.alternatives) :
              /\ parsed.result.alternatives[i] # <<>>
              /\ strip(parsed.result.alternatives[i]) = parsed.result.alternatives[i]
              /\ parsed.result.alternatives[i][1] \notin ListMarkers

\* The primary that the marked-section layer gives on the raw text, empty when
\* no pattern matches.
MarkedPrimary == GroupOr(improved_match(rawText), <<>>)

\* The primary that the JSON layer gives: empty when no object is found, when
\* it does not decode, or when its "improved" is empty.
JsonPrimaryOf(jm, data) ==
    IF jm.found /\ data.ok /\ FromJson(data).raised = "no"
    THEN FromJson(data).improved_prompt ELSE <<>>
JsonPrimaryOn(jm) == JsonPrimaryOf(jm, json_loads(jm.group0))
JsonPrimary == JsonPrimaryOn(json_search(rawText))

\* C25: the layers run in order. When the embedded JSON gives a non-empty
\* primary, the whole result is what the JSON assignments gave, whatever
\* markers the text holds; otherwise the primary is that of the marked-section
\* layer, and the first lines are taken only when that one is empty.
C25_LayersInOrder ==
    parsed.done /\ parsed.result.raised = "no" =>
        /\ JsonPrimary # <<>> =>
              parsed.result = FromJson(json_loads(json_search(rawText).group0))
        /\ (JsonPrimary = <<>> /\ ~Blank(rawText)) =>
              parsed.result.improved_prompt =
                  (IF MarkedPrimary # <<>> THEN MarkedPrimary ELSE FirstLines(rawText))

\* A JSON object with a non-empty primary and no alternatives, between a line
\* with the marker of the improved version and a line with the marker of the
\* alternatives: neither marker was used.
C25_Witness ==
    /\ parsed.done
    /\ JsonPrimaryCase
    /\ rawText[1] = "improved"
    /\ \E i \in 1..Len(rawText) : rawText[i] = "alternative" /\ At(rawText, i + 1) = ":"
    /\ parsed.result.improved_prompt = <<"X">>
    /\ parsed.result.alternatives = <<>>

\* ------------------------------------------------------------------ C26
\* C26: every HTTP request a worker issues is made by send_openrouter_request
\* with the value of OPENROUTER_API_KEY, whatever provider kind and credential
\* reference the target declares; no other adapter is ever called.
C26_AllDispatchThroughGateway ==
    \A w \in Workers :
        /\ wire[w].calls = transportCalls[w]
        /\ (net[w] # "none") = (wire[w].calls > 0)
        /\ wire[w].calls > 0 =>
              /\ wire[w].adapter = "send_openrouter_request"
              /\ wire[w].credential = get_api_key(env, "OPENROUTER_API_KEY")

\* A target declared as anthropic with another credential reference has been sent.
C26_Witness ==
    \E w \in Workers :
        /\ models.items[w].model_type = "anthropic"
        /\ models.items[w].api_id = "OTHER_API_KEY"
        /\ wire[w].calls = 1
        /\ wpc[w] = "done"

\* ------------------------------------------------------------------ C27
\* C27: once the caller has cancelled the batch in flight, the outcomes of that
\* batch never reach on_request_finished, and the window is idle: sending is
\* enabled, cancelling is not.
C27_CancelledBatchNeverDelivered ==
    gui.cancelled =>
        /\ ~gui.temp_results.some
        /\ gui.send_btn
        /\ ~gui.cancel_btn

\* ------------------------------------------------------------------ C28
\* C28: with every thread scheduled fairly and every HTTP exchange ending,
\* send_prompts_parallel called on a list eventually returns its outcome list,
\* after every worker has terminated and every thread has been joined.
C28_DispatchEventuallyReturns ==
    (~models.isNone) ~>
        (/\ mainpc = "returned"
         /\ returned.done
         /\ joined = N
         /\ \A w \in Workers : Terminated(wpc[w]))

\* A full batch has returned although one exchange timed out and the callback raised.
C28_Witness ==
    /\ N = MaxTargets
    /\ returned.done
    /\ callback = "raises"
    /\ \E w \in Workers : net[w] = "timeout"

\* ------------------------------------------------------------------ C29
\* The calls of progress_callback made by the thread of target w.
CallsBy(w) == {k \in 1..Len(progressLog) : progressLog[k].by = models.items[w].id}

\* C29: with a progress callback that raises, at every moment the shared list
\* holds at most one outcome per target and the callback has been called at
\* most once per target; the returned list holds exactly one per target.
C29_RaisingCallbackOneOutcome ==
    callback = "raises" =>
        /\ \A w \in Workers :
              /\ Cardinality(OutcomesOf(results, w)) <= 1
              /\ Cardinality(CallsBy(w)) <= 1
        /\ returned.done => \A w \in Workers : Cardinality(OutcomesOf(returned.list, w)) = 1

\* ------------------------------------------------------------------ C30
\* send_prompt_to_model has returned for target w.
Dispatched(w) == wpc[w] \notin {"idle", "send"}

\* C30: under one environment, validate_api_keys reports False for a target
\* exactly when send_prompt_to_model returns the credential-missing outcome
\* for it without an HTTP request; an absent, an empty and a whitespace-only
\* value are all reported False.
C30_ValidationAgreesWithDispatch ==
    lastCall.op = "validate_api_keys" =>
        /\ \A w \in Workers :
              Dispatched(w) =>
                 ((~lastCall.validation[models.items[w].id]) =
                  (/\ response[w] = CredentialMissingResponse(models.items[w])
                   /\ transportCalls[w] = 0))
        /\ CredentialBlank => \A w \in Workers : ~lastCall.validation[models.items[w].id]

\* A whitespace-only key was reported missing and the target, which refers to
\* another variable that is set, got the credential-missing outcome.
C30_Witness ==
    /\ lastCall.op = "validate_api_keys"
    /\ env["OPENROUTER_API_KEY"] = Some(<<SP>>)
    /\ \E w \in Workers :
          /\ models.items[w].api_id = "OTHER_API_KEY"
          /\ wpc[w] = "done"
          /\ ~lastCall.validation[models.items[w].id]
          /\ response[w] = CredentialMissingResponse(models.items[w])
====
